---- MODULE Spec2Model ----
(***************************************************************************)
(* go-mailgen: the plain-text table renderer (component.go) and the        *)
(* builder with its process-wide default prototype (builder.go).           *)
(*                                                                         *)
(* A Go string is modelled as a sequence of characters (runes); a         *)
(* character is written as a one-character TLA+ string, except the         *)
(* two-byte characters U+00E9 and U+00C9, written "e_acute" and "E_ACUTE". *)
(* len(s) in Go is the number of BYTES of s; fmt pads to a width counted   *)
(* in RUNES.  Both lengths are kept apart below.                           *)
(***************************************************************************)
EXTENDS Integers, Sequences, FiniteSets, TLC

VARIABLES
    table,          \* the Table value Table.PlainText is called on
    out,            \* what the call returned: NotCalled, or [panic, text, err]
    heap,           \* builder objects by address: address -> Builder struct
    actionHeap,     \* Action objects by address (components hold *Action)
    defaultBuilder, \* atomic.Pointer[Builder]: the address of the prototype
    installed,      \* the prototype's struct value when it was stored
    touched,        \* a setter ran on the stored prototype after it was stored
    last,           \* the last call: [op, b, arg]
    calls,          \* number of setter calls the callers still make
    docs,           \* builder address -> what its last Build() returned
    callers,        \* goroutines inside New(): [pc, loaded, seen]
    broken          \* what fails when the templates and the CSS inliner run

vars == <<table, out, heap, actionHeap, defaultBuilder, installed, touched, last, calls,
          docs, callers, broken>>

(***************************************************************************)
(* Strings                                                                 *)
(***************************************************************************)

\* utf8.RuneLen of one character
RuneBytes(c) == IF c \in {"e_acute", "E_ACUTE"} THEN 2 ELSE 1

\* len(s): the number of bytes of s
RECURSIVE ByteLen(_)
ByteLen(s) == IF s = <<>> THEN 0 ELSE RuneBytes(Head(s)) + ByteLen(Tail(s))

\* utf8.RuneCountInString(s): the number of characters of s
RuneCount(s) == Len(s)

\* strings.Repeat(c, n) for n >= 0 (a negative n panics, see padString)
Repeat(c, n) == [i \in 1..n |-> c]

\* unicode.ToUpper
ToUpper(c) ==
    CASE c = "a" -> "A"
      [] c = "b" -> "B"
      [] c = "d" -> "D"
      [] c = "i" -> "I"
      [] c = "x" -> "X"
      [] c = "y" -> "Y"
      [] c = "z" -> "Z"
      [] c = "e_acute" -> "E_ACUTE"
      [] OTHER -> c

Max(S) == CHOOSE x \in S : \A y \in S : y <= x

Digits == {"0", "1", "2", "3", "4", "5", "6", "7", "8", "9"}

DigitVal(c) ==
    CASE c = "0" -> 0 [] c = "1" -> 1 [] c = "2" -> 2 [] c = "3" -> 3
      [] c = "4" -> 4 [] c = "5" -> 5 [] c = "6" -> 6 [] c = "7" -> 7
      [] c = "8" -> 8 [] c = "9" -> 9

RECURSIVE DecimalValue(_, _)
DecimalValue(s, acc) ==
    IF s = <<>> THEN acc ELSE DecimalValue(Tail(s), 10 * acc + DigitVal(Head(s)))

\* a parser that reads the leading digits and stops at the first other character
AtoiLeadingDigits(s) ==
    LET n == Max({0} \cup {k \in 1..Len(s) : \A i \in 1..k : s[i] \in Digits})
    IN  IF n = 0 THEN [ok |-> FALSE, val |-> 0]
        ELSE [ok |-> TRUE, val |-> DecimalValue(SubSeq(s, 1, n), 0)]

\* strconv.Atoi: an optional sign, then one or more decimal digits and
\* nothing else; anything else is an error.
Atoi(s) ==
    LET signed == s # <<>> /\ Head(s) \in {"+", "-"}
        body   == IF signed THEN Tail(s) ELSE s
        ok     == body # <<>> /\ \A i \in 1..Len(body) : body[i] \in Digits
    IN  IF ~ok THEN [ok |-> FALSE, val |-> 0]
        ELSE [ok  |-> TRUE,
              val |-> IF signed /\ Head(s) = "-"
                      THEN 0 - DecimalValue(body, 0)
                      ELSE DecimalValue(body, 0)]

(***************************************************************************)
(* Table.PlainText                                                         *)
(***************************************************************************)

\* m[k] on a Go map: the zero value when k is absent
MapInt(m, k) == IF k \in DOMAIN m THEN m[k] ELSE 0
MapStr(m, k) == IF k \in DOMAIN m THEN m[k] ELSE <<>>
MapAlign(m, k) == IF k \in DOMAIN m THEN m[k] ELSE ""
MapPut(m, k, v) == [x \in DOMAIN m \cup {k} |-> IF x = k THEN v ELSE m[x]]

\* fmt.Sprintf("%*s", width, s) and fmt.Sprintf("%-*s", width, s): fmt counts
\* the width in runes; a negative width given by * means left-justify to
\* its absolute value.
SprintfPad(width, s, minus) ==
    LET w    == IF width < 0 THEN 0 - width ELSE width
        left == minus \/ width < 0
        n    == IF w > RuneCount(s) THEN w - RuneCount(s) ELSE 0
    IN  IF left THEN s \o Repeat(" ", n) ELSE Repeat(" ", n) \o s

\* Go's integer division truncates toward zero
GoDiv(a, b) == IF a >= 0 THEN a \div b ELSE 0 - ((0 - a) \div b)

\* the larger half on the left
CenterLeftLargerHalf(pad) == pad - GoDiv(pad, 2)

\* the left padding of the "center" case
CenterLeft(pad) == GoDiv(pad, 2)

\* Table.padString; strings.Repeat panics on a negative count
padString(s, width, align) ==
    CASE align = "right" -> [panic |-> FALSE, s |-> SprintfPad(width, s, FALSE)]
      [] align = "center" ->
            LET pad   == width - ByteLen(s)
                left  == CenterLeft(pad)
                right == pad - left
            IN  IF left < 0 \/ right < 0
                THEN [panic |-> TRUE, s |-> <<>>]
                ELSE [panic |-> FALSE,
                      s |-> Repeat(" ", left) \o s \o Repeat(" ", right)]
      [] OTHER -> [panic |-> FALSE, s |-> SprintfPad(width, s, TRUE)]

\* Table.capitalize
capitalize(s) == IF s = <<>> THEN <<>> ELSE <<ToUpper(Head(s))>> \o Tail(s)

\* the keys of the first row, then every key a later row adds
RECURSIVE AddKeys(_, _)
AddKeys(names, row) ==
    IF row = <<>> THEN names
    ELSE AddKeys(IF \E i \in 1..Len(names) : names[i] = Head(row).Key
                 THEN names ELSE Append(names, Head(row).Key),
                 Tail(row))

RECURSIVE KeysOfRows(_, _)
KeysOfRows(names, rows) ==
    IF rows = <<>> THEN names ELSE KeysOfRows(AddKeys(names, Head(rows)), Tail(rows))

columnNamesOfAllRows(t) ==
    KeysOfRows([i \in 1..Len(t.Data[1]) |-> t.Data[1][i].Key], Tail(t.Data))

\* columnNames: the keys of the first row, in order
columnNames(t) == [i \in 1..Len(t.Data[1]) |-> t.Data[1][i].Key]

\* the custom width of a column, when the string parses
CustomWidthOf(t, col, dflt) ==
    IF col \in DOMAIN t.CustomWidth /\ Atoi(t.CustomWidth[col]).ok
    THEN Atoi(t.CustomWidth[col]).val
    ELSE dflt

\* first loop: colWidths[col] = len(col), replaced by the custom width
RECURSIVE InitWidths(_, _, _)
InitWidths(t, cols, m) ==
    IF cols = <<>> THEN m
    ELSE InitWidths(t, Tail(cols),
                    MapPut(m, Head(cols),
                           CustomWidthOf(t, Head(cols), ByteLen(Head(cols)))))

\* second loop, one row: every entry of the row may widen its key's column
RECURSIVE ScanRow(_, _)
ScanRow(row, m) ==
    IF row = <<>> THEN m
    ELSE LET e == Head(row)
             width == ByteLen(e.Value)
         IN  ScanRow(Tail(row),
                     IF width > MapInt(m, e.Key) THEN MapPut(m, e.Key, width) ELSE m)

RECURSIVE ScanRows(_, _)
ScanRows(rows, m) ==
    IF rows = <<>> THEN m ELSE ScanRows(Tail(rows), ScanRow(Head(rows), m))

\* colWidths as the rendering loops read it
colWidths(t) == ScanRows(t.Data, InitWidths(t, columnNames(t), <<>>))

\* entryMap of one row: the last value stored under each key
RECURSIVE entryMap(_, _)
entryMap(row, m) ==
    IF row = <<>> THEN m
    ELSE entryMap(Tail(row), MapPut(m, Head(row).Key, Head(row).Value))

\* one rendered line: the cells joined by sep, then "\n"
RECURSIVE JoinCells(_, _)
JoinCells(cells, sep) ==
    IF cells = <<>> THEN <<>>
    ELSE IF Len(cells) = 1 THEN cells[1]
    ELSE cells[1] \o sep \o JoinCells(Tail(cells), sep)

HeaderCells(t) ==
    LET cols == columnNames(t) w == colWidths(t)
    IN  [i \in 1..Len(cols) |->
            padString(capitalize(cols[i]), MapInt(w, cols[i]),
                      MapAlign(t.CustomAlign, cols[i]))]

SeparatorCells(t) ==
    LET cols == columnNames(t) w == colWidths(t)
    IN  [i \in 1..Len(cols) |-> Repeat("-", MapInt(w, cols[i]))]

DataCells(t, r) ==
    LET cols == columnNames(t) w == colWidths(t)
        em == entryMap(t.Data[r], <<>>)
    IN  [i \in 1..Len(cols) |->
            padString(MapStr(em, cols[i]), MapInt(w, cols[i]),
                      MapAlign(t.CustomAlign, cols[i]))]

Strs(cells) == [i \in 1..Len(cells) |-> cells[i].s]

RECURSIVE DataLines(_, _)
DataLines(t, r) ==
    IF r > Len(t.Data) THEN <<>>
    ELSE JoinCells(Strs(DataCells(t, r)), <<" ", "|", " ">>) \o <<"\n">>
         \o DataLines(t, r + 1)

\* strings.Repeat panics on a negative count: in padString's "center" case and
\* in the separator row
Panics(t) ==
    \/ \E i \in 1..Len(t.Data[1]) : HeaderCells(t)[i].panic
    \/ \E i \in 1..Len(t.Data[1]) : MapInt(colWidths(t), columnNames(t)[i]) < 0
    \/ \E r \in 1..Len(t.Data) : \E i \in 1..Len(t.Data[1]) : DataCells(t, r)[i].panic

\* PlainText without the test of the first row
PlainTextFirstRowUnchecked(t) ==
    IF Len(t.Data) = 0
    THEN [panic |-> FALSE, text |-> <<>>, err |-> "nil"]
    ELSE IF Panics(t)
    THEN [panic |-> TRUE, text |-> <<>>, err |-> "none"]
    ELSE [panic |-> FALSE,
          text  |-> JoinCells(Strs(HeaderCells(t)), <<" ", "|", " ">>) \o <<"\n">>
                    \o JoinCells(SeparatorCells(t), <<"-", "+", "-">>) \o <<"\n">>
                    \o DataLines(t, 1),
          err   |-> "nil"]

\* Table.PlainText: the returned (string, error), or a panic
PlainText(t) ==
    IF Len(t.Data) = 0 \/ Len(t.Data[1]) = 0
    THEN [panic |-> FALSE, text |-> <<>>, err |-> "nil"]
    ELSE IF Panics(t)
    THEN [panic |-> TRUE, text |-> <<>>, err |-> "none"]
    ELSE [panic |-> FALSE,
          text  |-> JoinCells(Strs(HeaderCells(t)), <<" ", "|", " ">>) \o <<"\n">>
                    \o JoinCells(SeparatorCells(t), <<"-", "+", "-">>) \o <<"\n">>
                    \o DataLines(t, 1),
          err   |-> "nil"]

(***************************************************************************)
(* Builder and the default prototype                                       *)
(***************************************************************************)

\* time.Now().Year(), rendered by %d
CurrentYear == "2026"

\* fmt.Sprintf("(c) %d %s. All rights reserved.", year, name), kept as its parts
CopyrightOf(name) == <<"(c) ", CurrentYear, " ", name, ". All rights reserved.">>

NoAddress == [Address |-> "", Name |-> ""]

\* newDefaultBuilder(): every field not named is the zero value
newDefaultBuilder ==
    [subject        |-> "",
     from           |-> NoAddress,
     to             |-> <<>>,
     cc             |-> <<>>,
     bcc            |-> <<>>,
     textDirection  |-> "ltr",
     theme          |-> "default",
     preheader      |-> "",
     greeting       |-> "Hi",
     name           |-> "",
     salutation     |-> "Best regards",
     components     |-> <<>>,
     fallbacks      |-> <<>>,
     fallbackFormat |-> "If you're having trouble clicking the \"[ACTION]\" button, copy and paste the URL below into your web browser:",
     product        |-> [Name      |-> "Go-Mailgen",
                         Link      |-> "https://github.com/akfaiz/go-mailgen",
                         Logo      |-> "",
                         Copyright |-> CopyrightOf("Go-Mailgen")]]

\* a clone that leaves the subject out
cloneWithoutSubject(b) == [b EXCEPT !.subject = ""]

\* Builder.clone: a new struct; the scalar fields are copied, the slices are
\* copied into fresh backing arrays (append([]T{}, s...)) whose elements,
\* where they are pointers (*Action, *Table), still point to the same objects
clone(b) ==
    [textDirection  |-> b.textDirection,
     subject        |-> b.subject,
     from           |-> b.from,
     to             |-> <<>> \o b.to,
     cc             |-> <<>> \o b.cc,
     bcc            |-> <<>> \o b.bcc,
     theme          |-> b.theme,
     fallbackFormat |-> b.fallbackFormat,
     preheader      |-> b.preheader,
     greeting       |-> b.greeting,
     name           |-> b.name,
     salutation     |-> b.salutation,
     fallbacks      |-> <<>> \o b.fallbacks,
     components     |-> <<>> \o b.components,
     product        |-> b.product]

NotCalled == [panic |-> FALSE, text |-> <<>>, err |-> "not called"]

\* builder objects in one run: the prototype made by init() and those New() returns
MaxBuilders == 3
\* setter calls in one run
MaxCalls == 1

\* the addresses callers hold: every builder New() returned
Held == 2..Len(heap)

EmptyTable == [Data |-> <<>>, CustomWidth |-> <<>>, CustomAlign |-> <<>>]
SmallTable ==
    [Data |-> <<<<[Key |-> <<"i", "d">>, Value |-> <<"x">>]>>>>,
     CustomWidth |-> <<>>, CustomAlign |-> <<>>]

InitBuilders ==
    /\ heap = <<newDefaultBuilder>>
    /\ actionHeap = <<>>
    /\ defaultBuilder = 1
    /\ installed = newDefaultBuilder
    /\ touched = FALSE
    /\ last = [op |-> "init", b |-> 0, arg |-> <<>>]
    /\ calls = MaxCalls
    /\ docs = <<>>
    /\ callers = <<>>
    /\ broken = "none"

Init ==
    /\ table = EmptyTable
    /\ out = NotCalled
    /\ InitBuilders

\* what every setter does besides its own assignment
Called(op, b, arg) ==
    /\ b \in Held
    /\ calls > 0
    /\ calls' = calls - 1
    /\ last' = [op |-> op, b |-> b, arg |-> arg]
    /\ touched' = (touched \/ b = defaultBuilder)
    /\ UNCHANGED <<table, out, defaultBuilder, installed, docs, callers, broken>>

\* New(): defaultBuilder.Load().clone()
New ==
    /\ Len(heap) < MaxBuilders
    /\ heap' = Append(heap, clone(heap[defaultBuilder]))
    /\ last' = [op |-> "New", b |-> Len(heap) + 1, arg |-> {defaultBuilder}]
    /\ UNCHANGED <<table, out, actionHeap, defaultBuilder, installed, touched, calls,
                   docs, callers, broken>>

\* SetDefault(b): nil (written 0) is ignored, any other pointer is stored as it is
\* what a goroutine inside New() can have seen stored once b is stored
Witnessed(b) ==
    [p \in DOMAIN callers |->
        IF callers[p].pc \in {"called", "loaded"}
        THEN [callers[p] EXCEPT !.seen = @ \cup {b}]
        ELSE callers[p]]

\* a SetDefault that takes nil as "back to the built-in prototype"
SetDefaultNilResets(b) ==
    /\ b \in Held \cup {0}
    /\ last' = [op |-> "SetDefault", b |-> b, arg |-> <<>>]
    /\ defaultBuilder' = IF b = 0 THEN 1 ELSE b
    /\ installed' = heap[defaultBuilder']
    /\ touched' = FALSE
    /\ callers' = Witnessed(defaultBuilder')
    /\ UNCHANGED <<table, out, heap, actionHeap, calls, docs, broken>>

SetDefault(b) ==
    /\ b \in Held \cup {0}
    /\ last' = [op |-> "SetDefault", b |-> b, arg |-> <<>>]
    /\ IF b = 0
       THEN UNCHANGED <<defaultBuilder, installed, touched, callers>>
       ELSE /\ defaultBuilder' = b
            /\ installed' = heap[b]
            /\ touched' = FALSE
            /\ callers' = Witnessed(b)
    /\ UNCHANGED <<table, out, heap, actionHeap, calls, docs, broken>>

Subject(b, subject) ==
    /\ Called("Subject", b, subject)
    /\ heap' = [heap EXCEPT ![b].subject = subject]
    /\ UNCHANGED actionHeap

\* From(address, name...): name is the sequence of the variadic arguments
From(b, address, name) ==
    /\ Called("From", b, <<address, name>>)
    /\ heap' = [heap EXCEPT ![b].from =
                    [Address |-> address,
                     Name    |-> IF Len(name) > 0 THEN name[1] ELSE ""]]
    /\ UNCHANGED actionHeap

\* a filterRecipients that looks for "" in the first argument only
filterRecipientsKeepingOthers(first, others) ==
    IF first = "" THEN others ELSE <<first>> \o others

\* Builder.filterRecipients(first, others...)
filterRecipients(first, others) ==
    IF first = "" /\ Len(others) = 0 THEN <<>>
    ELSE SelectSeq(<<first>> \o others, LAMBDA r : r # "")

\* a To that reuses the array behind b.to from its start: append(b.to[:0], ...)
ToReusingArray(b, to, others) ==
    /\ Called("To", b, <<to, others>>)
    /\ heap' = [heap EXCEPT ![b].to =
                    IF Len(filterRecipients(to, others)) = 0 THEN @
                    ELSE filterRecipients(to, others)
                         \o SubSeq(@, Len(filterRecipients(to, others)) + 1, Len(@))]
    /\ UNCHANGED actionHeap

To(b, to, others) ==
    /\ Called("To", b, <<to, others>>)
    /\ heap' = [heap EXCEPT ![b].to = @ \o filterRecipients(to, others)]
    /\ UNCHANGED actionHeap

Cc(b, cc, others) ==
    /\ Called("Cc", b, <<cc, others>>)
    /\ heap' = [heap EXCEPT ![b].cc = @ \o filterRecipients(cc, others)]
    /\ UNCHANGED actionHeap

Bcc(b, bcc, others) ==
    /\ Called("Bcc", b, <<bcc, others>>)
    /\ heap' = [heap EXCEPT ![b].bcc = @ \o filterRecipients(bcc, others)]
    /\ UNCHANGED actionHeap

Theme(b, theme) ==
    /\ Called("Theme", b, theme)
    /\ heap' = [heap EXCEPT ![b].theme = theme]
    /\ UNCHANGED actionHeap

\* a TextDirection that falls back to "ltr" on a direction it does not know
TextDirectionDefaulting(b, direction) ==
    /\ Called("TextDirection", b, direction)
    /\ heap' = [heap EXCEPT ![b].textDirection =
                    IF direction # "ltr" /\ direction # "rtl" THEN "ltr" ELSE direction]
    /\ UNCHANGED actionHeap

TextDirection(b, direction) ==
    /\ Called("TextDirection", b, direction)
    /\ heap' = IF direction # "ltr" /\ direction # "rtl" THEN heap
               ELSE [heap EXCEPT ![b].textDirection = direction]
    /\ UNCHANGED actionHeap

FallbackFormat(b, format) ==
    /\ Called("FallbackFormat", b, format)
    /\ heap' = IF format = "" THEN heap ELSE [heap EXCEPT ![b].fallbackFormat = format]
    /\ UNCHANGED actionHeap

Preheader(b, preheader) ==
    /\ Called("Preheader", b, preheader)
    /\ heap' = [heap EXCEPT ![b].preheader = preheader]
    /\ UNCHANGED actionHeap

Greeting(b, greeting) ==
    /\ Called("Greeting", b, greeting)
    /\ heap' = [heap EXCEPT ![b].greeting = greeting]
    /\ UNCHANGED actionHeap

Name(b, name) ==
    /\ Called("Name", b, name)
    /\ heap' = [heap EXCEPT ![b].name = name]
    /\ UNCHANGED actionHeap

Salutation(b, salutation) ==
    /\ Called("Salutation", b, salutation)
    /\ heap' = [heap EXCEPT ![b].salutation = salutation]
    /\ UNCHANGED actionHeap

Line(b, text) ==
    /\ Called("Line", b, text)
    /\ heap' = [heap EXCEPT ![b].components = Append(@, [kind |-> "Line", Text |-> text])]
    /\ UNCHANGED actionHeap

\* fmt.Sprintf for the formats the callers below use
Sprintf(format, arg) ==
    CASE format = "Order %s" -> "Order " \o arg
      [] OTHER -> format

\* Linef(format, args...) is Line(fmt.Sprintf(format, args...))
Linef(b, format, arg) ==
    /\ Called("Linef", b, <<format, arg>>)
    /\ heap' = [heap EXCEPT ![b].components =
                    Append(@, [kind |-> "Line", Text |-> Sprintf(format, arg)])]
    /\ UNCHANGED actionHeap

\* an Action that lists every action as a fallback, whatever cfg says
ActionAlwaysFallback(b, text, link, cfg) ==
    LET action == [Text  |-> text,
                   Link  |-> link,
                   Color |-> IF Len(cfg) > 0 /\ cfg[1].Color # ""
                             THEN cfg[1].Color ELSE "#3869D4",
                   NoFallback   |-> FALSE,
                   FallbackText |-> <<>>]
        ref == Len(actionHeap) + 1
    IN  /\ Called("Action", b, <<text, link, cfg>>)
        /\ actionHeap' = Append(actionHeap, action)
        /\ heap' = [heap EXCEPT
                      ![b].components = Append(@, [kind |-> "Action", ref |-> ref]),
                      ![b].fallbacks = Append(@, ref)]

\* Action(text, link, cfg...): cfg is the sequence of the variadic arguments
Action(b, text, link, cfg) ==
    LET action == [Text  |-> text,
                   Link  |-> link,
                   Color |-> IF Len(cfg) > 0 /\ cfg[1].Color # ""
                             THEN cfg[1].Color ELSE "#3869D4",
                   NoFallback   |-> FALSE,
                   FallbackText |-> <<>>]
        noFallback == IF Len(cfg) > 0 THEN cfg[1].NoFallback ELSE FALSE
        ref == Len(actionHeap) + 1
    IN  /\ Called("Action", b, <<text, link, cfg>>)
        /\ actionHeap' = Append(actionHeap, action)
        /\ heap' = [heap EXCEPT
                      ![b].components = Append(@, [kind |-> "Action", ref |-> ref]),
                      ![b].fallbacks = IF noFallback THEN @ ELSE Append(@, ref)]

\* a Product that takes the missing name from the built-in prototype
ProductFromBuiltIn(b, product) ==
    LET defaultProduct == newDefaultBuilder.product
        named == IF product.Name = "" THEN defaultProduct.Name ELSE product.Name
    IN  /\ Called("Product", b, product)
        /\ heap' = [heap EXCEPT ![b].product =
                        [Name      |-> named,
                         Link      |-> product.Link,
                         Logo      |-> product.Logo,
                         Copyright |-> IF product.Copyright = <<>>
                                       THEN CopyrightOf(named) ELSE product.Copyright]]
        /\ UNCHANGED actionHeap

Product(b, product) ==
    LET defaultProduct == heap[defaultBuilder].product
        named == IF product.Name = "" THEN defaultProduct.Name ELSE product.Name
    IN  /\ Called("Product", b, product)
        /\ heap' = [heap EXCEPT ![b].product =
                        [Name      |-> named,
                         Link      |-> product.Link,
                         Logo      |-> product.Logo,
                         Copyright |-> IF product.Copyright = <<>>
                                       THEN CopyrightOf(named) ELSE product.Copyright]]
        /\ UNCHANGED actionHeap

\* Table(table): the builder keeps a pointer to its own copy of the struct
Table(b, t) ==
    /\ Called("Table", b, t)
    /\ heap' = IF Len(t.Data) = 0 THEN heap
               ELSE [heap EXCEPT ![b].components = Append(@, [kind |-> "Table", table |-> t])]
    /\ UNCHANGED actionHeap

SetterOps ==
    {"Subject", "From", "To", "Cc", "Bcc", "Theme", "TextDirection", "FallbackFormat",
     "Preheader", "Greeting", "Name", "Salutation", "Line", "Linef", "Action",
     "Product", "Table"}

\* the arguments the callers pass
RecipientArgs == {<<"", <<>>>>, <<"a@x", <<>>>>, <<"", <<"b@x">>>>,
                  <<"c@x", <<"", "d@x">>>>}
ActionCfgs == {<<>>, <<[Color |-> "", NoFallback |-> TRUE]>>,
               <<[Color |-> "red", NoFallback |-> FALSE]>>}
Products == {[Name |-> "", Link |-> "", Logo |-> "", Copyright |-> <<>>],
             [Name |-> "Acme", Link |-> "https://acme.test", Logo |-> "",
              Copyright |-> <<"(c) Acme">>]}

Next ==
    \/ New
    \/ \E b \in Held \cup {0} : SetDefault(b)
    \/ \E b \in Held : Subject(b, "S1")
    \/ \E b \in Held : \E name \in {<<>>, <<"Sender">>} : From(b, "from@x", name)
    \/ \E b \in Held : \E a \in RecipientArgs : To(b, a[1], a[2])
    \/ \E b \in Held : \E a \in RecipientArgs : Cc(b, a[1], a[2])
    \/ \E b \in Held : \E a \in RecipientArgs : Bcc(b, a[1], a[2])
    \/ \E b \in Held : \E theme \in {"plain", "fancy"} : Theme(b, theme)
    \/ \E b \in Held : \E d \in {"rtl", "up", ""} : TextDirection(b, d)
    \/ \E b \in Held : \E f \in {"", "Open [ACTION]:"} : FallbackFormat(b, f)
    \/ \E b \in Held : Preheader(b, "P1")
    \/ \E b \in Held : \E g \in {"Hello", ""} : Greeting(b, g)
    \/ \E b \in Held : Name(b, "John")
    \/ \E b \in Held : Salutation(b, "Bye")
    \/ \E b \in Held : Line(b, "L1")
    \/ \E b \in Held : Linef(b, "Order %s", "7")
    \/ \E b \in Held : \E cfg \in ActionCfgs : Action(b, "Go", "https://go.test", cfg)
    \/ \E b \in Held : \E p \in Products : Product(b, p)
    \/ \E b \in Held : \E t \in {EmptyTable, SmallTable} : Table(b, t)

Spec == Init /\ [][Next]_vars

(***************************************************************************)
(* Build                                                                   *)
(*                                                                         *)
(* The template files (templates/default, templates/plain) and the         *)
(* CSS-inlining library are kept as what they are given and in which       *)
(* order: a rendered document is a record of the values the index          *)
(* template receives, a rendered block a record of the fields of the       *)
(* block.  A text built by Sprintf or ReplaceAll is kept as its parts.     *)
(***************************************************************************)

\* the parts of a fallback format around its "[ACTION]" placeholders
Tokens(format) ==
    CASE format = newDefaultBuilder.fallbackFormat ->
            <<"If you're having trouble clicking the \"", "[ACTION]",
              "\" button, copy and paste the URL below into your web browser:">>
      [] format = "Open [ACTION]:" -> <<"Open ", "[ACTION]", ":">>
      [] format = "[ACTION]: press [ACTION]" -> <<"[ACTION]", ": press ", "[ACTION]">>
      [] OTHER -> <<format>>

\* strings.Replace(s, old, new, 1): the first occurrence only
ReplaceFirst(s, old, new) ==
    [i \in DOMAIN Tokens(s) |->
        IF Tokens(s)[i] = old /\ \A j \in 1..(i - 1) : Tokens(s)[j] # old
        THEN new ELSE Tokens(s)[i]]

\* strings.ReplaceAll(s, old, new) for old = "[ACTION]"
ReplaceAll(s, old, new) ==
    [i \in DOMAIN Tokens(s) |-> IF Tokens(s)[i] = old THEN new ELSE Tokens(s)[i]]

\* html/template escaping of a text, for the texts that hold ' or "
HTMLEscape(s) ==
    CASE s = "If you're having trouble clicking the \"" ->
            "If you&#39;re having trouble clicking the &#34;"
      [] s = "\" button, copy and paste the URL below into your web browser:" ->
            "&#34; button, copy and paste the URL below into your web browser:"
      [] s = "It's" -> "It&#39;s"
      [] OTHER -> s

\* what can go wrong while the templates run: the template of a block type or
\* the index template is missing or broken, the CSS inliner rejects the markup
Faults == {"none", "line", "button", "table", "index.html", "premailer.new",
           "premailer.transform", "index.txt"}

\* a beforeBuild that adds the fallback text to the one already there
beforeBuildAppending(b, actions) ==
    [a \in DOMAIN actions |->
        IF \E i \in DOMAIN b.fallbacks : b.fallbacks[i] = a
        THEN [actions[a] EXCEPT !.FallbackText =
                  @ \o ReplaceAll(b.fallbackFormat, "[ACTION]", actions[a].Text)]
        ELSE actions[a]]

\* beforeBuild: writes FallbackText into every Action of b.fallbacks
beforeBuild(b, actions) ==
    [a \in DOMAIN actions |->
        IF \E i \in DOMAIN b.fallbacks : b.fallbacks[i] = a
        THEN [actions[a] EXCEPT !.FallbackText =
                  ReplaceAll(b.fallbackFormat, "[ACTION]", actions[a].Text)]
        ELSE actions[a]]

htmlTemplate(b) == IF b.theme = "plain" THEN "PlainHtmlTmpl" ELSE "DefaultHtmlTmpl"

\* the block-type name a component's HTML method executes
TemplateName(comp) ==
    CASE comp.kind = "Line" -> "line"
      [] comp.kind = "Action" -> "button"
      [] comp.kind = "Table" -> "table"

\* an HTML method that returns ("", nil) when the template fails
HTMLIgnoringError(comp, fault, actions) ==
    IF fault = TemplateName(comp)
    THEN [err |-> "nil", html |-> [block |-> TemplateName(comp)]]
    ELSE [err |-> "nil",
          html |-> CASE comp.kind = "Line" ->
                          [block |-> "line", Text |-> HTMLEscape(comp.Text)]
                     [] comp.kind = "Action" ->
                          [block |-> "button",
                           Text  |-> HTMLEscape(actions[comp.ref].Text),
                           Link  |-> actions[comp.ref].Link,
                           Color |-> actions[comp.ref].Color]
                     [] comp.kind = "Table" ->
                          [block |-> "table", Table |-> comp.table]]

\* comp.HTML(tmpl): ("", err) when the template fails, else the rendered block
HTML(comp, fault, actions) ==
    IF fault = TemplateName(comp)
    THEN [err |-> fault, html |-> <<>>]
    ELSE [err |-> "nil",
          html |-> CASE comp.kind = "Line" ->
                          [block |-> "line", Text |-> HTMLEscape(comp.Text)]
                     [] comp.kind = "Action" ->
                          [block |-> "button",
                           Text  |-> HTMLEscape(actions[comp.ref].Text),
                           Link  |-> actions[comp.ref].Link,
                           Color |-> actions[comp.ref].Color]
                     [] comp.kind = "Table" ->
                          [block |-> "table", Table |-> comp.table]]

\* comp.PlainText(): Line.Text, Action.Text + " (" + Action.Link + ")",
\* Table.PlainText()
ComponentPlainText(comp, actions) ==
    CASE comp.kind = "Line" ->
            [panic |-> FALSE, text |-> [block |-> "line", Text |-> comp.Text]]
      [] comp.kind = "Action" ->
            [panic |-> FALSE,
             text  |-> [block |-> "button",
                        Text  |-> actions[comp.ref].Text \o " (" \o actions[comp.ref].Link
                                  \o ")"]]
      [] comp.kind = "Table" ->
            [panic |-> PlainText(comp.table).panic,
             text  |-> [block |-> "table", Text |-> PlainText(comp.table).text]]

\* a greetingLine that puts the greeting first whatever the direction
greetingLineLeftToRight(b) ==
    IF b.name # "" THEN b.greeting \o " " \o b.name
    ELSE IF b.greeting = "" THEN heap[defaultBuilder].greeting
    ELSE b.greeting

greetingLine(b) ==
    IF b.name # ""
    THEN IF b.textDirection = "rtl"
         THEN b.name \o " " \o b.greeting
         ELSE b.greeting \o " " \o b.name
    ELSE IF b.greeting = "" THEN heap[defaultBuilder].greeting
    ELSE b.greeting

\* the first error of a sequence of (result, err) pairs, "nil" when there is none
FirstErr(rs) ==
    IF \A i \in DOMAIN rs : rs[i].err = "nil" THEN "nil"
    ELSE rs[CHOOSE i \in DOMAIN rs :
                /\ rs[i].err # "nil"
                /\ \A j \in 1..(i - 1) : rs[j].err = "nil"].err

\* tmpl.ExecuteTemplate(&buf, "index.html", data): the index template wraps
\* greeting, blocks, salutation, product and fallbacks, escaping the texts
IndexHTML(tmpl, data) ==
    [Template       |-> tmpl,
     TextDirection  |-> data.TextDirection,
     Preheader      |-> HTMLEscape(data.Preheader),
     Greeting       |-> HTMLEscape(data.Greeting),
     ComponentsHTML |-> data.ComponentsHTML,
     Salutation     |-> HTMLEscape(data.Salutation),
     Product        |-> data.Product,
     Fallbacks      |-> data.Fallbacks,
     Inlined        |-> 0,
     Clean          |-> FALSE]

\* premailer Transform: one more pass of style inlining over the markup
Transform(html) == [html EXCEPT !.Inlined = @ + 1]

\* cleanEmailHTML: white space between tags and blank lines go, the text stays
cleanEmailHTML(html) == [html EXCEPT !.Clean = TRUE]

\* a generateHTML that collects the rendered blocks in front of the earlier ones
generateHTMLPrepending(b, fault, actions) ==
    LET rs == [i \in DOMAIN b.components |->
                  HTML(b.components[Len(b.components) + 1 - i], fault, actions)]
    IN  IF FirstErr(rs) # "nil" THEN [err |-> FirstErr(rs), html |-> <<>>]
        ELSE IF fault \in {"index.html", "premailer.new", "premailer.transform"}
        THEN [err |-> fault, html |-> <<>>]
        ELSE [err |-> "nil",
              html |-> cleanEmailHTML(Transform(IndexHTML(htmlTemplate(b),
                          [TextDirection  |-> b.textDirection,
                           Preheader      |-> b.preheader,
                           Greeting       |-> greetingLine(b),
                           Salutation     |-> b.salutation,
                           Product        |-> b.product,
                           ComponentsHTML |-> [i \in DOMAIN rs |-> rs[i].html],
                           Fallbacks      |->
                               [i \in DOMAIN b.fallbacks |->
                                   [FallbackText |->
                                        [k \in DOMAIN actions[b.fallbacks[i]].FallbackText |->
                                            HTMLEscape(actions[b.fallbacks[i]].FallbackText[k])],
                                    Link |-> actions[b.fallbacks[i]].Link]]])))]

\* a generateHTML that runs the CSS inliner over every rendered block as well
generateHTMLInliningBlocks(b, fault, actions) ==
    LET rs == [i \in DOMAIN b.components |-> HTML(b.components[i], fault, actions)]
    IN  IF FirstErr(rs) # "nil" THEN [err |-> FirstErr(rs), html |-> <<>>]
        ELSE IF fault \in {"index.html", "premailer.new", "premailer.transform"}
        THEN [err |-> fault, html |-> <<>>]
        ELSE [err |-> "nil",
              html |-> cleanEmailHTML(Transform(IndexHTML(htmlTemplate(b),
                          [TextDirection  |-> b.textDirection,
                           Preheader      |-> b.preheader,
                           Greeting       |-> greetingLine(b),
                           Salutation     |-> b.salutation,
                           Product        |-> b.product,
                           ComponentsHTML |->
                               [i \in DOMAIN rs |->
                                   Transform([Inlined |-> 0] @@ rs[i].html)],
                           Fallbacks      |->
                               [i \in DOMAIN b.fallbacks |->
                                   [FallbackText |->
                                        [k \in DOMAIN actions[b.fallbacks[i]].FallbackText |->
                                            HTMLEscape(actions[b.fallbacks[i]].FallbackText[k])],
                                    Link |-> actions[b.fallbacks[i]].Link]]])))]

generateHTML(b, fault, actions) ==
    LET rs == [i \in DOMAIN b.components |-> HTML(b.components[i], fault, actions)]
    IN  IF FirstErr(rs) # "nil" THEN [err |-> FirstErr(rs), html |-> <<>>]
        ELSE IF fault \in {"index.html", "premailer.new", "premailer.transform"}
        THEN [err |-> fault, html |-> <<>>]
        ELSE [err |-> "nil",
              html |-> cleanEmailHTML(Transform(IndexHTML(htmlTemplate(b),
                          [TextDirection  |-> b.textDirection,
                           Preheader      |-> b.preheader,
                           Greeting       |-> greetingLine(b),
                           Salutation     |-> b.salutation,
                           Product        |-> b.product,
                           ComponentsHTML |-> [i \in DOMAIN rs |-> rs[i].html],
                           Fallbacks      |->
                               [i \in DOMAIN b.fallbacks |->
                                   [FallbackText |->
                                        [k \in DOMAIN actions[b.fallbacks[i]].FallbackText |->
                                            HTMLEscape(actions[b.fallbacks[i]].FallbackText[k])],
                                    Link |-> actions[b.fallbacks[i]].Link]]])))]

\* DefaultPlainTextTmpl.ExecuteTemplate(&buf, "index.txt", data): text/template,
\* nothing is escaped
IndexText(data) ==
    [Greeting       |-> data.Greeting,
     Preheader      |-> data.Preheader,
     ComponentsText |-> data.ComponentsText,
     Salutation     |-> data.Salutation,
     Product        |-> data.Product]

\* cleanEmailText: the text is trimmed and runs of blank lines shrink to one,
\* so a block that rendered as "" leaves no trace
cleanEmailText(text) ==
    [text EXCEPT !.ComponentsText =
        SelectSeq(@, LAMBDA f : f.Text # (IF f.block = "table" THEN <<>> ELSE ""))]

\* a generatePlaintext that leaves the product footer out for the plain theme
generatePlaintextByTheme(b, fault, actions) ==
    LET rs == [i \in DOMAIN b.components |-> ComponentPlainText(b.components[i], actions)]
    IN  IF \E i \in DOMAIN rs : rs[i].panic THEN [panic |-> TRUE, err |-> "nil", text |-> <<>>]
        ELSE IF fault = "index.txt" THEN [panic |-> FALSE, err |-> fault, text |-> <<>>]
        ELSE [panic |-> FALSE,
              err   |-> "nil",
              text  |-> cleanEmailText(IndexText(
                          [Greeting       |-> greetingLine(b),
                           Preheader      |-> b.preheader,
                           Salutation     |-> b.salutation,
                           Product        |-> IF b.theme = "plain"
                                              THEN [Name |-> "", Link |-> "", Logo |-> "",
                                                    Copyright |-> <<>>]
                                              ELSE b.product,
                           ComponentsText |-> [i \in DOMAIN rs |-> rs[i].text]]))]

generatePlaintext(b, fault, actions) ==
    LET rs == [i \in DOMAIN b.components |-> ComponentPlainText(b.components[i], actions)]
    IN  IF \E i \in DOMAIN rs : rs[i].panic THEN [panic |-> TRUE, err |-> "nil", text |-> <<>>]
        ELSE IF fault = "index.txt" THEN [panic |-> FALSE, err |-> fault, text |-> <<>>]
        ELSE [panic |-> FALSE,
              err   |-> "nil",
              text  |-> cleanEmailText(IndexText(
                          [Greeting       |-> greetingLine(b),
                           Preheader      |-> b.preheader,
                           Salutation     |-> b.salutation,
                           Product        |-> b.product,
                           ComponentsText |-> [i \in DOMAIN rs |-> rs[i].text]]))]

\* what Build returns when it returns (nil, err)
NilMessage(err) == [nil |-> TRUE, err |-> err, panic |-> FALSE]

\* Build() on the builder at address b.  The message holds the builder's
\* recipient slices themselves: to, cc and bcc are (array, len) views of the
\* arrays behind b.to, b.cc and b.bcc, written here as their lengths.
\* asBuilt and calls record the lists and the moment of the call, again
\* that the builder was built before and no setter was called since.
Build(b) ==
    LET actions == beforeBuild(heap[b], actionHeap)
        html == generateHTML(heap[b], broken, actions)
        plainText == generatePlaintext(heap[b], broken, actions)
    IN  /\ b \in Held
        /\ actionHeap' = actions
        /\ docs' = (b :>
              (IF html.err # "nil" THEN NilMessage(html.err)
               ELSE IF plainText.panic THEN [nil |-> TRUE, err |-> "nil", panic |-> TRUE]
               ELSE IF plainText.err # "nil" THEN NilMessage(plainText.err)
               ELSE [nil       |-> FALSE,
                     err       |-> "nil",
                     panic     |-> FALSE,
                     subject   |-> heap[b].subject,
                     from      |-> heap[b].from,
                     to        |-> Len(heap[b].to),
                     cc        |-> Len(heap[b].cc),
                     bcc       |-> Len(heap[b].bcc),
                     html      |-> html.html,
                     plainText |-> plainText.text,
                     asBuilt   |-> [to |-> heap[b].to, cc |-> heap[b].cc,
                                    bcc |-> heap[b].bcc],
                     calls     |-> calls,
                     again     |-> /\ b \in DOMAIN docs
                                   /\ ~docs[b].nil
                                   /\ docs[b].calls = calls])) @@ docs
        /\ last' = [op |-> "Build", b |-> b, arg |-> <<>>]
        /\ UNCHANGED <<table, out, heap, defaultBuilder, installed, touched, calls, callers, broken>>

\* message.To(), message.Cc(), message.Bcc(): the slices the message holds
MessageTo(b) == SubSeq(heap[b].to, 1, docs[b].to)
MessageCc(b) == SubSeq(heap[b].cc, 1, docs[b].cc)
MessageBcc(b) == SubSeq(heap[b].bcc, 1, docs[b].bcc)

(***************************************************************************)
(* Two callers build messages: each holds a builder from New(); the first  *)
(* configures its builder, both call Build.  The prototype they cloned is  *)
(* the built-in one, or one a caller configured and stored before:         *)
(*   p := New().To("a@x").Action("Go", "https://go.test").Product(Acme)    *)
(*   SetDefault(p)                                                         *)
(***************************************************************************)

Acme == [Name |-> "Acme", Link |-> "https://acme.test", Logo |-> "",
         Copyright |-> <<"(c) Acme">>]

StoredAction == [Text |-> "Go", Link |-> "https://go.test", Color |-> "#3869D4",
                 NoFallback |-> FALSE, FallbackText |-> <<>>]

StoredPrototype ==
    [clone(newDefaultBuilder) EXCEPT !.to = <<"a@x">>,
                                     !.components = <<[kind |-> "Action", ref |-> 1]>>,
                                     !.fallbacks = <<1>>,
                                     !.product = Acme]

\* the builder the first caller holds, and the one the second caller holds
Mine == defaultBuilder + 1
Other == defaultBuilder + 2

\* a table whose only row has no entries
BlankTable == [Data |-> <<<<>>>>, CustomWidth |-> <<>>, CustomAlign |-> <<>>]

InitBuild ==
    /\ table = EmptyTable
    /\ out = NotCalled
    /\ \/ /\ heap = <<newDefaultBuilder, clone(newDefaultBuilder), clone(newDefaultBuilder)>>
          /\ actionHeap = <<>>
          /\ defaultBuilder = 1
          /\ installed = newDefaultBuilder
       \/ /\ heap = <<newDefaultBuilder, StoredPrototype, clone(StoredPrototype),
                      clone(StoredPrototype)>>
          /\ actionHeap = <<StoredAction>>
          /\ defaultBuilder = 2
          /\ installed = StoredPrototype
    /\ touched = FALSE
    /\ last = [op |-> "New", b |-> Len(heap), arg |-> {defaultBuilder}]
    /\ calls = MaxCalls + 1
    /\ docs = <<>>
    /\ callers = <<>>
    /\ broken = "none"

NextBuild ==
    \/ Subject(Mine, "S1")
    \/ From(Mine, "from@x", <<"Sender">>)
    \/ \E a \in RecipientArgs : To(Mine, a[1], a[2])
    \/ \E a \in {<<"", <<>>>>, <<"", <<"b@x">>>>} : Cc(Mine, a[1], a[2])
    \/ \E a \in {<<"", <<>>>>, <<"c@x", <<"", "d@x">>>>} : Bcc(Mine, a[1], a[2])
    \/ \E theme \in {"plain", "fancy"} : Theme(Mine, theme)
    \/ \E format \in {"Open [ACTION]:", "[ACTION]: press [ACTION]"} :
          FallbackFormat(Mine, format)
    \/ Preheader(Mine, "P1")
    \/ Salutation(Mine, "Bye")
    \/ Line(Mine, "It's")
    \/ Linef(Mine, "Order %s", "7")
    \/ Action(Mine, "Go", "https://go.test", <<>>)
    \/ \E p \in Products : Product(Mine, p)
    \/ Table(Mine, SmallTable)
    \/ Build(Mine)

SpecBuild == InitBuild /\ [][NextBuild]_vars

(***************************************************************************)
(* The same two callers, adding blocks in any order; the templates and the *)
(* CSS inliner work or one of them fails                                   *)
(***************************************************************************)

InitBlocks ==
    /\ table = EmptyTable
    /\ out = NotCalled
    /\ \/ /\ heap = <<newDefaultBuilder, clone(newDefaultBuilder), clone(newDefaultBuilder)>>
          /\ actionHeap = <<>>
          /\ defaultBuilder = 1
          /\ installed = newDefaultBuilder
       \/ /\ heap = <<newDefaultBuilder, StoredPrototype, clone(StoredPrototype),
                      clone(StoredPrototype)>>
          /\ actionHeap = <<StoredAction>>
          /\ defaultBuilder = 2
          /\ installed = StoredPrototype
    /\ touched = FALSE
    /\ last = [op |-> "New", b |-> Len(heap), arg |-> {defaultBuilder}]
    /\ calls = MaxCalls + 1
    /\ docs = <<>>
    /\ callers = <<>>
    /\ broken \in Faults

NextBlocks ==
    \/ FallbackFormat(Mine, "Open [ACTION]:")
    \/ Line(Mine, "It's")
    \/ Linef(Mine, "Order %s", "7")
    \/ \E cfg \in {<<>>, <<[Color |-> "", NoFallback |-> TRUE]>>} :
          Action(Mine, "Go", "https://go.test", cfg)
    \/ \E t \in {EmptyTable, BlankTable, SmallTable} : Table(Mine, t)
    \/ \E b \in {Mine, Other} : Build(b)

SpecBlocks == InitBlocks /\ [][NextBlocks]_vars

(***************************************************************************)
(* One caller sets greeting, name and text direction in any order, and     *)
(* builds                                                                  *)
(***************************************************************************)

InitGreet ==
    /\ table = EmptyTable
    /\ out = NotCalled
    /\ heap = <<newDefaultBuilder, clone(newDefaultBuilder)>>
    /\ actionHeap = <<>>
    /\ defaultBuilder = 1
    /\ installed = newDefaultBuilder
    /\ touched = FALSE
    /\ last = [op |-> "New", b |-> 2, arg |-> {1}]
    /\ calls = MaxCalls + 2
    /\ docs = <<>>
    /\ callers = <<>>
    /\ broken = "none"

NextGreet ==
    \/ \E greeting \in {"Hello", ""} : Greeting(Mine, greeting)
    \/ \E name \in {"John", ""} : Name(Mine, name)
    \/ \E direction \in {"ltr", "rtl", "up", ""} : TextDirection(Mine, direction)
    \/ Build(Mine)

SpecGreet == InitGreet /\ [][NextGreet]_vars

(***************************************************************************)
(* Callers take builders from New(), set their greeting, store one of them *)
(* as the prototype, and build                                             *)
(***************************************************************************)

InitStored ==
    /\ table = EmptyTable
    /\ out = NotCalled
    /\ heap = <<newDefaultBuilder>>
    /\ actionHeap = <<>>
    /\ defaultBuilder = 1
    /\ installed = newDefaultBuilder
    /\ touched = FALSE
    /\ last = [op |-> "init", b |-> 0, arg |-> <<>>]
    /\ calls = MaxCalls + 1
    /\ docs = <<>>
    /\ callers = <<>>
    /\ broken = "none"

NextStored ==
    \/ New
    \/ \E b \in Held \cup {0} : SetDefault(b)
    \/ \E b \in Held : \E greeting \in {"Hello", ""} : Greeting(b, greeting)
    \/ \E b \in Held : Build(b)

SpecStored == InitStored /\ [][NextStored]_vars

(***************************************************************************)
(* New() and SetDefault() called from several goroutines                   *)
(*                                                                         *)
(* New() is defaultBuilder.Load().clone(): an atomic load of the pointer,  *)
(* then a field-by-field copy of the struct it points to.  SetDefault is   *)
(* one atomic Store.  A goroutine is followed from its call of New() to    *)
(* the return; "seen" collects every pointer that was the stored one at    *)
(* some moment of the call.                                                *)
(***************************************************************************)

\* goroutines that call New()
MaxCallers == 2
Callers == 1..MaxCallers

Idle == [pc |-> "idle", loaded |-> 0, seen |-> {}]

\* builders a caller configured before any goroutine started:
\* New().Subject("S1").Theme("plain").To("a@x") and New().Name("John")
Prepared ==
    <<[clone(newDefaultBuilder) EXCEPT !.subject = "S1", !.theme = "plain",
                                       !.to = <<"a@x">>],
      [clone(newDefaultBuilder) EXCEPT !.name = "John"]>>

InitConc ==
    /\ table = EmptyTable
    /\ out = NotCalled
    /\ heap = <<newDefaultBuilder>> \o Prepared
    /\ actionHeap = <<>>
    /\ defaultBuilder = 1
    /\ installed = newDefaultBuilder
    /\ touched = FALSE
    /\ last = [op |-> "init", b |-> 0, arg |-> <<>>]
    /\ calls = 0
    /\ docs = <<>>
    /\ callers = [p \in Callers |-> Idle]
    /\ broken = "none"

\* builders in flight: those New() is about to allocate
InFlight == Cardinality({p \in DOMAIN callers : callers[p].pc # "idle"})

\* goroutine p calls New()
NewCall(p) ==
    /\ callers[p].pc = "idle"
    /\ Len(heap) + InFlight < Len(Prepared) + MaxBuilders
    /\ callers' = [callers EXCEPT ![p] = [pc |-> "called", loaded |-> 0,
                                           seen |-> {defaultBuilder}]]
    /\ UNCHANGED <<table, out, heap, actionHeap, defaultBuilder, installed, touched,
                   last, calls, docs, broken>>

\* defaultBuilder.Load()
NewLoad(p) ==
    /\ callers[p].pc = "called"
    /\ callers' = [callers EXCEPT ![p].pc = "loaded", ![p].loaded = defaultBuilder]
    /\ UNCHANGED <<table, out, heap, actionHeap, defaultBuilder, installed, touched,
                   last, calls, docs, broken>>

\* a New() that reads the subject and the product through the global again
NewReturnReloads(p) ==
    /\ callers[p].pc = "loaded"
    /\ heap' = Append(heap, [clone(heap[callers[p].loaded]) EXCEPT
                                 !.subject = heap[defaultBuilder].subject,
                                 !.product = heap[defaultBuilder].product])
    /\ last' = [op |-> "New", b |-> Len(heap) + 1, arg |-> callers[p].seen]
    /\ callers' = [callers EXCEPT ![p] = Idle]
    /\ UNCHANGED <<table, out, actionHeap, defaultBuilder, installed, touched, calls, docs, broken>>

\* .clone() of the loaded builder, and the return
NewReturn(p) ==
    /\ callers[p].pc = "loaded"
    /\ heap' = Append(heap, clone(heap[callers[p].loaded]))
    /\ last' = [op |-> "New", b |-> Len(heap) + 1, arg |-> callers[p].seen]
    /\ callers' = [callers EXCEPT ![p] = Idle]
    /\ UNCHANGED <<table, out, actionHeap, defaultBuilder, installed, touched, calls, docs, broken>>

NextConc ==
    \/ \E p \in Callers : NewCall(p)
    \/ \E p \in Callers : NewLoad(p)
    \/ \E p \in Callers : NewReturn(p)
    \/ \E b \in Held \cup {0} : SetDefault(b)

SpecConc == InitConc /\ [][NextConc]_vars

(***************************************************************************)
(* A caller keeps the table it passed to Table()                           *)
(*                                                                         *)
(* Table(table) stores a pointer to its copy of the Table struct.  The     *)
(* copy holds the same Data slice (the same rows, the same entries) and    *)
(* the same CustomWidth and CustomAlign maps as the caller's value: they   *)
(* are one storage read through two structs, so what the caller writes     *)
(* into a row or a map afterwards is what the builder's block holds.       *)
(***************************************************************************)

\* the blocks of b that are tables
TablesOf(b) == {i \in DOMAIN heap[b].components : heap[b].components[i].kind = "Table"}

\* what every write of the caller does besides the write itself
CallerWrote(b, arg) ==
    /\ b \in Held
    /\ last' = [op |-> "caller", b |-> b, arg |-> arg]
    /\ UNCHANGED <<table, out, actionHeap, defaultBuilder, installed, touched, calls,
                   docs, callers, broken>>

\* t.Data[r][c].Value = value, on the table the caller passed as block i
CallerSetsValue(b, i, r, c, value) ==
    /\ i \in TablesOf(b)
    /\ r \in DOMAIN heap[b].components[i].table.Data
    /\ c \in DOMAIN heap[b].components[i].table.Data[r]
    /\ CallerWrote(b, <<"Data", i, r, c, value>>)
    /\ heap' = [heap EXCEPT ![b].components[i].table.Data[r][c].Value = value]

\* t.Columns.CustomWidth[key] = width
CallerSetsWidth(b, i, key, width) ==
    /\ i \in TablesOf(b)
    /\ CallerWrote(b, <<"CustomWidth", i, key, width>>)
    /\ heap' = [heap EXCEPT ![b].components[i].table.CustomWidth = MapPut(@, key, width)]

\* t.Columns.CustomAlign[key] = align
CallerSetsAlign(b, i, key, align) ==
    /\ i \in TablesOf(b)
    /\ CallerWrote(b, <<"CustomAlign", i, key, align>>)
    /\ heap' = [heap EXCEPT ![b].components[i].table.CustomAlign = MapPut(@, key, align)]

\* a table whose maps exist and are empty
WideTable ==
    [Data |-> <<<<[Key |-> <<"a">>, Value |-> <<"x", "y", "z">>]>>,
                <<[Key |-> <<"a">>, Value |-> <<>>]>>>>,
     CustomWidth |-> <<>>, CustomAlign |-> <<>>]

InitOwned ==
    /\ table = EmptyTable
    /\ out = NotCalled
    /\ heap = <<newDefaultBuilder, clone(newDefaultBuilder)>>
    /\ actionHeap = <<>>
    /\ defaultBuilder = 1
    /\ installed = newDefaultBuilder
    /\ touched = FALSE
    /\ last = [op |-> "New", b |-> 2, arg |-> {1}]
    /\ calls = MaxCalls
    /\ docs = <<>>
    /\ callers = <<>>
    /\ broken = "none"

NextOwned ==
    \/ \E t \in {EmptyTable, SmallTable, WideTable} : Table(Mine, t)
    \/ Line(Mine, "L1")
    \/ \E i \in TablesOf(Mine) : \E value \in {<<>>, <<"x", "y", "z">>} :
          CallerSetsValue(Mine, i, 1, 1, value)
    \/ \E i \in TablesOf(Mine) : CallerSetsWidth(Mine, i, <<"a">>, <<"3">>)
    \/ \E i \in TablesOf(Mine) : CallerSetsAlign(Mine, i, <<"a">>, "right")
    \/ Build(Mine)

SpecOwned == InitOwned /\ [][NextOwned]_vars

(***************************************************************************)
(* Build() called from two goroutines, each on its own builder             *)
(*                                                                         *)
(* Each goroutine owns one builder from New(), sets it up and builds it.   *)
(* Build() is followed in three steps: the call, beforeBuild (the writes   *)
(* of FallbackText), and the two renderings with the return.  No lock is   *)
(* taken anywhere, so a FallbackText that another goroutine is about to    *)
(* write while this one reads or writes it is a data race: the read sees   *)
(* the old text, the new one or a torn one, the write leaves its own text  *)
(* or a torn one.                                                          *)
(***************************************************************************)

\* a string read or left behind in the middle of a concurrent write
TornText == <<"torn">>

Building == [pc |-> "build", loaded |-> 0, seen |-> {}]
Rendering == [pc |-> "render", loaded |-> 0, seen |-> {}]

InitConcBuild ==
    /\ table = EmptyTable
    /\ out = NotCalled
    /\ \/ /\ heap = <<newDefaultBuilder, clone(newDefaultBuilder), clone(newDefaultBuilder)>>
          /\ actionHeap = <<>>
          /\ defaultBuilder = 1
          /\ installed = newDefaultBuilder
       \/ /\ heap = <<newDefaultBuilder, StoredPrototype, clone(StoredPrototype),
                      clone(StoredPrototype)>>
          /\ actionHeap = <<StoredAction>>
          /\ defaultBuilder = 2
          /\ installed = StoredPrototype
    /\ touched = FALSE
    /\ last = [op |-> "New", b |-> Len(heap), arg |-> {defaultBuilder}]
    /\ calls = MaxCalls + 1
    /\ docs = <<>>
    /\ callers = [b \in {Mine, Other} |-> Idle]
    /\ broken = "none"

\* the goroutines, other than the owner of b, that are about to write the
\* FallbackText of Action a
Writers(b, a) ==
    {q \in DOMAIN callers \ {b} :
        callers[q].pc = "build" /\ \E i \in DOMAIN heap[q].fallbacks : heap[q].fallbacks[i] = a}

\* the setter calls of the owner of b, made while it is not building
OwnerSets(b) ==
    /\ callers[b].pc = "idle"
    /\ \/ \E format \in {"", "Open [ACTION]:"} : FallbackFormat(b, format)
       \/ Action(b, "Go", "https://go.test", <<>>)

\* b.Build() is entered
BuildCall(b) ==
    /\ callers[b].pc = "idle"
    /\ callers' = [callers EXCEPT ![b] = Building]
    /\ UNCHANGED <<table, out, heap, actionHeap, defaultBuilder, installed, touched,
                   last, calls, docs, broken>>

\* b.beforeBuild()
BuildBefore(b) ==
    /\ callers[b].pc = "build"
    /\ \E torn \in SUBSET {a \in DOMAIN actionHeap : Writers(b, a) # {}} :
          actionHeap' =
              [a \in DOMAIN actionHeap |->
                  IF a \in torn /\ \E i \in DOMAIN heap[b].fallbacks : heap[b].fallbacks[i] = a
                  THEN [actionHeap[a] EXCEPT !.FallbackText = TornText]
                  ELSE beforeBuild(heap[b], actionHeap)[a]]
    /\ callers' = [callers EXCEPT ![b] = Rendering]
    /\ UNCHANGED <<table, out, heap, defaultBuilder, installed, touched, last, calls,
                   docs, broken>>

\* the Action objects as the renderings of b can read them
Views(b) ==
    LET texts(a) ==
            {actionHeap[a].FallbackText}
            \cup {ReplaceAll(heap[q].fallbackFormat, "[ACTION]", actionHeap[a].Text) :
                    q \in Writers(b, a)}
            \cup (IF Writers(b, a) # {} THEN {TornText} ELSE {})
    IN  {[a \in DOMAIN actionHeap |-> [actionHeap[a] EXCEPT !.FallbackText = v[a]]] :
            v \in {w \in [DOMAIN actionHeap -> UNION {texts(a) : a \in DOMAIN actionHeap}] :
                      \A a \in DOMAIN actionHeap : w[a] \in texts(a)}}

\* the message Build() returns for b from the two renderings
MessageOf(b, html, plainText) ==
    IF html.err # "nil" THEN NilMessage(html.err)
    ELSE IF plainText.panic THEN [nil |-> TRUE, err |-> "nil", panic |-> TRUE]
    ELSE IF plainText.err # "nil" THEN NilMessage(plainText.err)
    ELSE [nil       |-> FALSE,
          err       |-> "nil",
          panic     |-> FALSE,
          subject   |-> heap[b].subject,
          from      |-> heap[b].from,
          to        |-> Len(heap[b].to),
          cc        |-> Len(heap[b].cc),
          bcc       |-> Len(heap[b].bcc),
          html      |-> html.html,
          plainText |-> plainText.text,
          asBuilt   |-> [to |-> heap[b].to, cc |-> heap[b].cc, bcc |-> heap[b].bcc],
          calls     |-> calls,
          again     |-> b \in DOMAIN docs /\ ~docs[b].nil /\ docs[b].calls = calls]

\* b.generateHTML(), b.generatePlaintext() and the return
BuildReturn(b) ==
    /\ callers[b].pc = "render"
    /\ \E actions \in Views(b) :
          docs' = (b :> MessageOf(b, generateHTML(heap[b], broken, actions),
                                  generatePlaintext(heap[b], broken, actions))) @@ docs
    /\ last' = [op |-> "Build", b |-> b, arg |-> <<>>]
    /\ callers' = [callers EXCEPT ![b] = Idle]
    /\ UNCHANGED <<table, out, heap, actionHeap, defaultBuilder, installed, touched,
                   calls, broken>>

NextConcBuild ==
    \/ \E b \in {Mine, Other} : OwnerSets(b)
    \/ \E b \in {Mine, Other} : BuildCall(b)
    \/ \E b \in {Mine, Other} : BuildBefore(b)
    \/ \E b \in {Mine, Other} : BuildReturn(b)

SpecConcBuild == InitConcBuild /\ [][NextConcBuild]_vars

(***************************************************************************)
(* The tables Table.PlainText is called on                                 *)
(***************************************************************************)

\* rows and entries of a table, counted together
MaxSize == 4
\* the same count for a table that carries column metadata
MaxCustomSize == 3

Keys == {<<"a">>, <<"i", "d">>}
Values == {<<>>, <<"e_acute">>, <<"x", "y", "z">>}
Entries == [Key : Keys, Value : Values]

\* CustomWidth strings: integers, an integer with a unit, no digits at all
WidthStrs == {<<"1">>, <<"3">>, <<"-", "1">>, <<"2", "p", "x">>, <<"p", "x">>}
AlignStrs == {"left", "right", "center"}

RowsUpTo(n) == UNION {[1..k -> Entries] : k \in 0..n}

\* every [][]Entry with (number of rows + number of entries) <= n
RECURSIVE DataUpTo(_)
DataUpTo(n) ==
    IF n <= 0 THEN {<<>>}
    ELSE {<<>>} \cup
         UNION {{<<r>> \o rest : rest \in DataUpTo(n - 1 - Len(r))} : r \in RowsUpTo(n - 1)}

\* a Go map from column key to v, holding at most one key
MapsTo(S) == {<<>>} \cup UNION {{MapPut(<<>>, k, v) : v \in S} : k \in Keys}

TableInputs ==
    [Data : DataUpTo(MaxSize), CustomWidth : {<<>>}, CustomAlign : {<<>>}]
    \cup {t \in [Data : DataUpTo(MaxCustomSize),
                 CustomWidth : MapsTo(WidthStrs), CustomAlign : MapsTo(AlignStrs)] :
            DOMAIN t.CustomWidth = {} \/ DOMAIN t.CustomAlign = {}
            \/ DOMAIN t.CustomWidth = DOMAIN t.CustomAlign}

InitTable ==
    /\ table \in TableInputs
    /\ out = NotCalled
    /\ InitBuilders

\* result, err := table.PlainText()
RenderPlainText ==
    /\ out = NotCalled
    /\ out' = PlainText(table)
    /\ UNCHANGED <<table, heap, actionHeap, defaultBuilder, installed, touched, last, calls,
                   docs, callers, broken>>

NextTable == RenderPlainText

SpecTable == InitTable /\ [][NextTable]_vars

Returned == out # NotCalled /\ ~out.panic

(***************************************************************************)
(* Reading a rendered text back: lines and cells                           *)
(***************************************************************************)

\* s cut at every occurrence of the character c
RECURSIVE SplitAt(_, _)
SplitAt(s, c) ==
    IF \A i \in 1..Len(s) : s[i] # c THEN <<s>>
    ELSE LET i == CHOOSE j \in 1..Len(s) : s[j] = c /\ \A k \in 1..(j - 1) : s[k] # c
         IN  <<SubSeq(s, 1, i - 1)>> \o SplitAt(SubSeq(s, i + 1, Len(s)), c)

\* the lines of a text, each without its "\n"
LinesOf(text) ==
    IF text = <<>> THEN <<>>
    ELSE LET segs == SplitAt(text, "\n") IN SubSeq(segs, 1, Len(segs) - 1)

\* the cells of a line whose cells are joined by a three-character join with c
\* in the middle (" | " or "-+-")
CellsOf(line, c) ==
    LET segs == SplitAt(line, c)
        n == Len(segs)
    IN  [i \in 1..n |->
            SubSeq(segs[i], IF i > 1 THEN 2 ELSE 1,
                   IF i < n THEN Len(segs[i]) - 1 ELSE Len(segs[i]))]

RECURSIVE TrimLeft(_)
TrimLeft(s) == IF s # <<>> /\ Head(s) = " " THEN TrimLeft(Tail(s)) ELSE s

RECURSIVE TrimRight(_)
TrimRight(s) ==
    IF s # <<>> /\ s[Len(s)] = " " THEN TrimRight(SubSeq(s, 1, Len(s) - 1)) ELSE s

Trim(s) == TrimLeft(TrimRight(s))

HeaderLine == LinesOf(out.text)[1]
SeparatorLine == LinesOf(out.text)[2]
DataLine(r) == LinesOf(out.text)[2 + r]

\* the table was rendered to a non-empty text
Rendered == Returned /\ Len(table.Data) > 0 /\ Len(table.Data[1]) > 0

NoCustom(t) == DOMAIN t.CustomWidth = {} /\ DOMAIN t.CustomAlign = {}

RowKeys(row) == {row[i].Key : i \in 1..Len(row)}
FirstKeys(t) == RowKeys(t.Data[1])

\* the value a row shows under key k: the last one stored, "" when there is none
ShownValue(row, k) ==
    IF k \in RowKeys(row)
    THEN row[Max({i \in 1..Len(row) : row[i].Key = k})].Value
    ELSE <<>>

\* every value stored under key k, in any row
ColumnValues(t, k) ==
    UNION {{t.Data[r][i].Value : i \in {j \in 1..Len(t.Data[r]) : t.Data[r][j].Key = k}} :
            r \in 1..Len(t.Data)}

TitleCase(s) == IF s = <<>> THEN <<>> ELSE <<ToUpper(s[1])>> \o SubSeq(s, 2, Len(s))

PadRight(s, w) == IF w > Len(s) THEN s \o [i \in 1..(w - Len(s)) |-> " "] ELSE s

\* "the maximum of the key length and the longest value of that column",
\* lengths counted in characters
ContentWidth(t, k) == Max({Len(k)} \cup {Len(v) : v \in ColumnValues(t, k)})

RECURSIVE Joined(_, _)
Joined(cells, sep) ==
    IF Len(cells) = 0 THEN <<>>
    ELSE IF Len(cells) = 1 THEN cells[1]
    ELSE cells[1] \o sep \o Joined(Tail(cells), sep)

RECURSIVE Concat(_)
Concat(ss) == IF ss = <<>> THEN <<>> ELSE Head(ss) \o Concat(Tail(ss))

\* the text C1 describes for a table without column metadata
LeftAlignedGrid(t) ==
    LET cols == [i \in 1..Len(t.Data[1]) |-> t.Data[1][i].Key]
        n == Len(cols)
        W(i) == ContentWidth(t, cols[i])
    IN  Joined([i \in 1..n |-> PadRight(TitleCase(cols[i]), W(i))], <<" ", "|", " ">>)
        \o <<"\n">>
        \o Joined([i \in 1..n |-> [j \in 1..W(i) |-> "-"]], <<"-", "+", "-">>)
        \o <<"\n">>
        \o Concat([r \in 1..Len(t.Data) |->
                Joined([i \in 1..n |-> PadRight(ShownValue(t.Data[r], cols[i]), W(i))],
                       <<" ", "|", " ">>) \o <<"\n">>])

\* every string of the table is made of one-byte characters
SingleByte(t) ==
    \A r \in 1..Len(t.Data) : \A i \in 1..Len(t.Data[r]) :
        /\ ByteLen(t.Data[r][i].Key) = Len(t.Data[r][i].Key)
        /\ ByteLen(t.Data[r][i].Value) = Len(t.Data[r][i].Value)

(***************************************************************************)
(* C1: for a table with at least one row, a non-empty first row and no     *)
(* column metadata, PlainText returns the left-aligned grid: the header of *)
(* capitalized keys padded on the right to the column width and joined by  *)
(* " | ", the separator of "-" joined by "-+-", one line per row, each     *)
(* column as wide as its key or its longest value, every line ended by     *)
(* "\n".                                                                   *)
(***************************************************************************)
C1_PlainTextLayout ==
    (out # NotCalled /\ Len(table.Data) > 0 /\ Len(table.Data[1]) > 0 /\ NoCustom(table))
        => /\ ~out.panic
           /\ out.err = "nil"
           /\ out.text = LeftAlignedGrid(table)

\* the same statement on tables whose strings are all one-byte characters
C1_OnSingleByteTables == SingleByte(table) => C1_PlainTextLayout

\* the positions, keys and number of the rendered columns
NCols == Len(table.Data[1])
ColKey(i) == table.Data[1][i].Key

SameKeysInEveryRow(t) == \A r \in 1..Len(t.Data) : RowKeys(t.Data[r]) = FirstKeys(t)

\* column i carries a custom width string that parses as the integer w
HasIntWidth(i, w) ==
    /\ ColKey(i) \in DOMAIN table.CustomWidth
    /\ Atoi(table.CustomWidth[ColKey(i)]).ok
    /\ Atoi(table.CustomWidth[ColKey(i)]).val = w

WidthValues == {-1, 0, 1, 2, 3, 4}

(***************************************************************************)
(* C2: when every row has the keys of the first row, whatever the custom   *)
(* widths and alignments, the header cells hold the capitalized keys and   *)
(* the separator line is exactly as long as the header line.               *)
(***************************************************************************)
C2_SeparatorAsLongAsHeader ==
    (Rendered /\ SameKeysInEveryRow(table))
        => /\ Len(CellsOf(HeaderLine, "|")) = NCols
           /\ \A i \in 1..NCols : Trim(CellsOf(HeaderLine, "|")[i]) = TitleCase(ColKey(i))
           /\ Len(SeparatorLine) = Len(HeaderLine)

\* the same statement on one-byte tables whose custom widths are not smaller
\* than the key they are given for
C2_OnSingleByteWideEnough ==
    (/\ Rendered
     /\ SingleByte(table)
     /\ \A i \in 1..NCols : \A w \in WidthValues :
            HasIntWidth(i, w) => w >= Len(ColKey(i)))
        => C2_SeparatorAsLongAsHeader

(***************************************************************************)
(* C3: a column whose custom width parses as the integer w is rendered     *)
(* with width exactly w (w dashes in the separator), even when a value of  *)
(* the column is longer than w.                                            *)
(***************************************************************************)
C3_ExplicitWidthIsAuthoritative ==
    Rendered =>
        \A i \in 1..NCols : \A w \in WidthValues :
            (HasIntWidth(i, w) /\ w >= 0)
                => CellsOf(SeparatorLine, "+")[i] = [j \in 1..w |-> "-"]

(***************************************************************************)
(* C4: a column with an explicit integer width w is never truncated (each  *)
(* cell holds its full value, the header its full capitalized key), and    *)
(* when the key and every value are at most w characters long every cell   *)
(* of the column, in the header, separator and data lines, is exactly w    *)
(* characters wide.                                                        *)
(***************************************************************************)
C4_WidthPadsAndNeverTruncates ==
    Rendered =>
        \A i \in 1..NCols : \A w \in WidthValues :
            HasIntWidth(i, w) =>
                /\ Trim(CellsOf(HeaderLine, "|")[i]) = TitleCase(ColKey(i))
                /\ \A r \in 1..Len(table.Data) :
                       Trim(CellsOf(DataLine(r), "|")[i]) = ShownValue(table.Data[r], ColKey(i))
                /\ (/\ Len(ColKey(i)) <= w
                    /\ \A v \in ColumnValues(table, ColKey(i)) : Len(v) <= w)
                       => /\ Len(CellsOf(HeaderLine, "|")[i]) = w
                          /\ Len(CellsOf(SeparatorLine, "+")[i]) = w
                          /\ \A r \in 1..Len(table.Data) :
                                 Len(CellsOf(DataLine(r), "|")[i]) = w

\* the same statement on tables whose strings are all one-byte characters
C4_OnSingleByteTables == SingleByte(table) => C4_WidthPadsAndNeverTruncates

\* t with the CustomWidth entry of key k removed, or replaced by the string ws
WithoutWidth(t, k) ==
    [t EXCEPT !.CustomWidth = [x \in DOMAIN t.CustomWidth \ {k} |-> t.CustomWidth[x]]]
WithWidth(t, k, ws) == [t EXCEPT !.CustomWidth = MapPut(t.CustomWidth, k, ws)]

\* the digits a string starts with
RECURSIVE LeadingDigits(_)
LeadingDigits(s) ==
    IF s # <<>> /\ Head(s) \in Digits THEN <<Head(s)>> \o LeadingDigits(Tail(s)) ELSE <<>>

\* the whole string is an integer: an optional sign, then digits only
WholeInteger(ws) ==
    LET body == IF ws # <<>> /\ Head(ws) \in {"+", "-"} THEN Tail(ws) ELSE ws
    IN  body # <<>> /\ LeadingDigits(body) = body

\* a unit-suffixed width: digits followed by something else, such as "2px"
UnitSuffixed(ws) == LeadingDigits(ws) # <<>> /\ LeadingDigits(ws) # ws

(***************************************************************************)
(* C5 as claimed: a unit-suffixed custom width such as "100px" or "50%" is *)
(* honored by its leading digits, so the table is laid out as with the     *)
(* width "100", resp. "50".                                                *)
(***************************************************************************)
C5_UnitWidthHonoredByLeadingDigits ==
    (out # NotCalled) =>
        \A k \in DOMAIN table.CustomWidth :
            UnitSuffixed(table.CustomWidth[k])
                => out = PlainText(WithWidth(table, k, LeadingDigits(table.CustomWidth[k])))

(***************************************************************************)
(* C5 as amended: a custom width is honored only when the whole string     *)
(* parses as an integer; a unit-suffixed string such as "100px" is ignored *)
(* like a string without digits, and the table is rendered exactly as if   *)
(* the column had no custom width.                                         *)
(***************************************************************************)
C5_UnparsableWidthIgnored ==
    (out # NotCalled) =>
        \A k \in DOMAIN table.CustomWidth :
            ~WholeInteger(table.CustomWidth[k]) => out = PlainText(WithoutWidth(table, k))

\* a rendered column with the width "2px" whose content is narrower than 2
C5_Witness ==
    /\ Rendered
    /\ \E i \in 1..NCols :
          /\ ColKey(i) \in DOMAIN table.CustomWidth
          /\ table.CustomWidth[ColKey(i)] = <<"2", "p", "x">>
          /\ Len(CellsOf(SeparatorLine, "+")[i]) = 1

Spaces(n) == [j \in 1..n |-> " "]
AlignOf(i) == IF ColKey(i) \in DOMAIN table.CustomAlign THEN table.CustomAlign[ColKey(i)] ELSE ""

\* cell holds the text s, padded as the alignment al asks
PaddedAs(cell, s, al) ==
    LET p == Len(cell) - Len(s)
    IN  /\ p >= 0
        /\ CASE al = "right" -> cell = Spaces(p) \o s
             [] al = "center" -> cell = Spaces(p \div 2) \o s \o Spaces(p - (p \div 2))
             [] OTHER -> cell = s \o Spaces(p)

(***************************************************************************)
(* C6: every cell is padded as its column's alignment asks: "right" puts   *)
(* all padding on the left (the cell ends with the value), "center" puts   *)
(* floor(p/2) of the padding p on the left and the rest on the right,      *)
(* "left" or no alignment puts all padding on the right (the cell starts   *)
(* with the value).                                                        *)
(***************************************************************************)
C6_PaddingFollowsAlignment ==
    Rendered =>
        \A i \in 1..NCols :
            /\ PaddedAs(CellsOf(HeaderLine, "|")[i], TitleCase(ColKey(i)), AlignOf(i))
            /\ \A r \in 1..Len(table.Data) :
                   PaddedAs(CellsOf(DataLine(r), "|")[i],
                            ShownValue(table.Data[r], ColKey(i)), AlignOf(i))

\* a centered header cell with an odd amount of padding, and a right-aligned
\* column would do as well: here the centered one
C6_Witness ==
    /\ Rendered
    /\ \E i \in 1..NCols :
          /\ AlignOf(i) = "center"
          /\ (Len(CellsOf(HeaderLine, "|")[i]) - Len(ColKey(i))) % 2 = 1

\* t with every entry whose key the first row does not have removed
OnlyFirstRowKeys(t) ==
    [t EXCEPT !.Data =
        [r \in 1..Len(t.Data) |->
            SelectSeq(t.Data[r], LAMBDA e : e.Key \in FirstKeys(t))]]

(***************************************************************************)
(* C7: the rendered columns are the keys of the first row, in its order,   *)
(* on every line; a row lacking a key gets an empty cell of the column's   *)
(* width; a value stored under a key the first row does not have never     *)
(* appears and changes no column's width.                                  *)
(***************************************************************************)
C7_ColumnsAreFirstRowKeys ==
    Rendered =>
        /\ Len(LinesOf(out.text)) = 2 + Len(table.Data)
        /\ Len(CellsOf(HeaderLine, "|")) = NCols
        /\ Len(CellsOf(SeparatorLine, "+")) = NCols
        /\ \A i \in 1..NCols : Trim(CellsOf(HeaderLine, "|")[i]) = TitleCase(ColKey(i))
        /\ \A r \in 1..Len(table.Data) :
              /\ Len(CellsOf(DataLine(r), "|")) = NCols
              /\ \A i \in 1..NCols :
                    /\ Trim(CellsOf(DataLine(r), "|")[i]) = ShownValue(table.Data[r], ColKey(i))
                    /\ ColKey(i) \notin RowKeys(table.Data[r])
                          => CellsOf(DataLine(r), "|")[i]
                                = Spaces(Len(CellsOf(SeparatorLine, "+")[i]))
        /\ out = PlainText(OnlyFirstRowKeys(table))

\* a second row that lacks a key of the first row and stores a long value
\* under a key the first row does not have
C7_Witness ==
    /\ Rendered
    /\ Len(table.Data) >= 2
    /\ FirstKeys(table) \ RowKeys(table.Data[2]) # {}
    /\ \E j \in 1..Len(table.Data[2]) :
          /\ table.Data[2][j].Key \notin FirstKeys(table)
          /\ table.Data[2][j].Value = <<"x", "y", "z">>

(***************************************************************************)
(* C8: PlainText returns "" and a nil error for a table with no rows or    *)
(* with an empty first row; a custom width that is not numeric ("invalid") *)
(* is ignored: the column is as wide as without a custom width.            *)
(***************************************************************************)
C8_EmptyAndInvalidWidth ==
    (out # NotCalled) =>
        /\ (Len(table.Data) = 0 \/ Len(table.Data[1]) = 0)
              => out = [panic |-> FALSE, text |-> <<>>, err |-> "nil"]
        /\ \A k \in DOMAIN table.CustomWidth :
              (\A j \in 1..Len(table.CustomWidth[k]) : table.CustomWidth[k][j] \notin Digits)
                  => out = PlainText(WithoutWidth(table, k))

\* an empty first row followed by a row that has entries
C8_Witness ==
    /\ out # NotCalled
    /\ Len(table.Data) = 2
    /\ Len(table.Data[1]) = 0
    /\ Len(table.Data[2]) > 0

C10_PrototypeNeverMutated == (last.op = "New") => heap[last.b] = installed

(***************************************************************************)
(* C11: with SetDefault and New running concurrently from several callers  *)
(* (no stored builder is modified after it is stored), every New() returns *)
(* a clone whose whole state equals one of the prototypes that were stored *)
(* at some moment of the call: the one stored before a concurrent          *)
(* SetDefault or the one it stored, never a mixture of fields of both.     *)
(***************************************************************************)
C11_NewSeesOnePrototype ==
    (last.op = "New") => \E x \in last.arg : heap[last.b] = clone(heap[x])

\* a New() during which SetDefault stored a different prototype has returned
\* the newly stored one
C11_Witness ==
    /\ last.op = "New"
    /\ \E x, y \in last.arg :
          /\ x # y
          /\ heap[x].subject # heap[y].subject
          /\ defaultBuilder = y
          /\ heap[last.b] = clone(heap[y])
    /\ \E p \in Callers : callers[p].pc = "loaded"

(***************************************************************************)
(* C12: SetDefault(nil) is a no-op: the stored pointer and the builder it  *)
(* points to are the same after the call as before it, so New() keeps      *)
(* returning clones of the prototype stored before; and the pointer is     *)
(* never nil.                                                              *)
(***************************************************************************)
C12_SetDefaultNilIsNoOp ==
    /\ [](defaultBuilder \in DOMAIN heap)
    /\ [][(last'.op = "SetDefault" /\ last'.b = 0)
            => /\ defaultBuilder' = defaultBuilder
               /\ installed' = installed
               /\ heap' = heap
               /\ clone(heap'[defaultBuilder']) = clone(heap[defaultBuilder])]_vars
    /\ [][(last'.op = "New") => heap'[last'.b] = clone(heap[defaultBuilder])]_vars

\* SetDefault(nil) has returned while a caller's configured builder is stored
C12_Witness ==
    /\ last.op = "SetDefault"
    /\ last.b = 0
    /\ defaultBuilder # 1
    /\ heap[defaultBuilder] # newDefaultBuilder

(***************************************************************************)
(* Reading builders and documents                                          *)
(***************************************************************************)

Built(b) == b \in DOMAIN docs /\ ~docs[b].nil

\* the content of the document Build returned for b as d, the recipient
\* lists read through the slices the document holds
ContentOf(b, d) ==
    [subject |-> d.subject, from |-> d.from,
     to  |-> SubSeq(heap[b].to, 1, d.to),
     cc  |-> SubSeq(heap[b].cc, 1, d.cc),
     bcc |-> SubSeq(heap[b].bcc, 1, d.bcc),
     html |-> d.html, plainText |-> d.plainText]

HasFallback(b) == Len(heap[b].fallbacks) > 0

\* the arguments of a To/Cc/Bcc call without the empty ones, in argument order
NonEmptyArgs(arg) == SelectSeq(<<arg[1]>> \o arg[2], LAMBDA r : r # "")

NoEmpty(list) == \A i \in DOMAIN list : list[i] # ""

(***************************************************************************)
(* C13: Build() is idempotent: a Build() of a builder that was built       *)
(* before, with no setter call (and no SetDefault) since, returns a        *)
(* document with the same subject, from, to, cc, bcc, HTML and plain text  *)
(* as the one before, also for builders that hold Action blocks with       *)
(* fallbacks and share them with a builder built in between.               *)
(***************************************************************************)
C13_BuildIsIdempotent ==
    [][(/\ last'.op = "Build"
        /\ Built(last'.b)
        /\ docs[last'.b].calls = calls)
         => /\ ~docs'[last'.b].nil
            /\ ContentOf(last'.b, docs'[last'.b]) = ContentOf(last'.b, docs[last'.b])]_vars

\* a builder with a fallback action, whose format differs from that of the
\* other builder holding the same action, was built again after both were built
C13_Witness ==
    /\ last.op = "Build"
    /\ last.b = Mine
    /\ Built(Mine)
    /\ docs[Mine].again
    /\ Built(Other)
    /\ docs[Other].calls = calls
    /\ HasFallback(Mine)
    /\ \E i \in DOMAIN heap[Other].fallbacks :
          heap[Other].fallbacks[i] = heap[Mine].fallbacks[1]
    /\ heap[Mine].fallbackFormat # heap[Other].fallbackFormat

(***************************************************************************)
(* C14: a document returned by Build() is an immutable snapshot: whatever  *)
(* setters are called on the builder afterwards (To, Cc and Bcc append to  *)
(* the lists the document was built from), its subject, from, to, cc, bcc, *)
(* HTML and plain text stay as they were when Build() returned.            *)
(***************************************************************************)
C14_DocumentIsSnapshot ==
    /\ [](\A b \in DOMAIN docs :
            ~docs[b].nil =>
                /\ MessageTo(b) = docs[b].asBuilt.to
                /\ MessageCc(b) = docs[b].asBuilt.cc
                /\ MessageBcc(b) = docs[b].asBuilt.bcc)
    /\ [][(last'.op \in SetterOps) => docs' = docs]_vars

\* after Build(), To has appended to a list the document holds a part of
C14_Witness ==
    /\ last.op = "To"
    /\ Built(last.b)
    /\ docs[last.b].to > 0
    /\ Len(heap[last.b].to) > docs[last.b].to
    /\ MessageTo(last.b) = docs[last.b].asBuilt.to

(***************************************************************************)
(* C15: if the markup rendering of a block fails (the template of its      *)
(* block type "line", "button" or "table" fails), or the index template or *)
(* the CSS inlining fails, Build() returns a nil document together with    *)
(* that error; a document is never returned together with an error.        *)
(***************************************************************************)
C15_NoPartialDocument ==
    /\ (last.op = "Build"
          /\ \/ \E i \in DOMAIN heap[last.b].components :
                   broken = TemplateName(heap[last.b].components[i])
             \/ broken \in {"index.html", "premailer.new", "premailer.transform"})
        => docs[last.b] = [nil |-> TRUE, err |-> broken, panic |-> FALSE]
    /\ \A b \in DOMAIN docs : docs[b].nil <=> (docs[b].err # "nil" \/ docs[b].panic)

\* Build() failed on a button after a line before it had rendered
C15_Witness ==
    /\ last.op = "Build"
    /\ broken = "button"
    /\ Len(heap[last.b].components) >= 2
    /\ heap[last.b].components[1].kind = "Line"
    /\ heap[last.b].components[2].kind = "Action"
    /\ docs[last.b].nil
    /\ docs[last.b].err = "button"

(***************************************************************************)
(* C16: blocks are kept and rendered in call order: every Line, Linef,     *)
(* Action and non-empty Table call appends one block, of its kind and with *)
(* its arguments, behind the blocks already there; Build() renders the     *)
(* i-th block as the i-th markup fragment and the i-th plain-text          *)
(* fragment, so both outputs list the blocks in the order of the calls.    *)
(***************************************************************************)
C16_BlocksInCallOrder ==
    /\ [][(\/ last'.op \in {"Line", "Linef", "Action"}
           \/ last'.op = "Table" /\ Len(last'.arg.Data) > 0)
            => LET old == heap[last'.b].components
                   new == heap'[last'.b].components
               IN  /\ Len(new) = Len(old) + 1
                   /\ SubSeq(new, 1, Len(old)) = old
                   /\ CASE last'.op = "Line" ->
                             new[Len(new)] = [kind |-> "Line", Text |-> last'.arg]
                        [] last'.op = "Linef" ->
                             new[Len(new)] = [kind |-> "Line", Text |-> "Order 7"]
                        [] last'.op = "Action" ->
                             /\ new[Len(new)].kind = "Action"
                             /\ actionHeap'[new[Len(new)].ref].Text = last'.arg[1]
                             /\ actionHeap'[new[Len(new)].ref].Link = last'.arg[2]
                        [] last'.op = "Table" ->
                             new[Len(new)] = [kind |-> "Table", table |-> last'.arg]]_vars
    /\ [](\A b \in DOMAIN docs :
            (last.op = "Build" /\ last.b = b /\ ~docs[b].nil) =>
                LET blocks == heap[b].components
                    markup == docs[b].html.ComponentsHTML
                    texts == [i \in DOMAIN blocks |->
                                 CASE blocks[i].kind = "Line" ->
                                         [block |-> "line", Text |-> blocks[i].Text]
                                   [] blocks[i].kind = "Action" ->
                                         [block |-> "button",
                                          Text |-> actionHeap[blocks[i].ref].Text \o " ("
                                                   \o actionHeap[blocks[i].ref].Link \o ")"]
                                   [] blocks[i].kind = "Table" ->
                                         [block |-> "table",
                                          Text |-> PlainText(blocks[i].table).text]]
                IN  /\ Len(markup) = Len(blocks)
                    /\ \A i \in DOMAIN blocks :
                          CASE blocks[i].kind = "Line" ->
                                  markup[i] = [block |-> "line",
                                               Text |-> HTMLEscape(blocks[i].Text)]
                            [] blocks[i].kind = "Action" ->
                                  /\ markup[i].block = "button"
                                  /\ markup[i].Link = actionHeap[blocks[i].ref].Link
                            [] blocks[i].kind = "Table" ->
                                  markup[i] = [block |-> "table", Table |-> blocks[i].table]
                    /\ docs[b].plainText.ComponentsText =
                          SelectSeq(texts, LAMBDA f :
                              f.Text # (IF f.block = "table" THEN <<>> ELSE "")))

\* a builder that was cloned with an Action block and then got a table and
\* a line, in this order, has been built
C16_Witness ==
    /\ last.op = "Build"
    /\ Built(last.b)
    /\ Len(heap[last.b].components) = 3
    /\ heap[last.b].components[1].kind = "Action"
    /\ heap[last.b].components[2].kind = "Table"
    /\ heap[last.b].components[3].kind = "Line"
    /\ Len(docs[last.b].html.ComponentsHTML) = 3
    /\ docs[last.b].html.ComponentsHTML[3].block = "line"

(***************************************************************************)
(* C17: To, Cc and Bcc drop their empty-string arguments and append the    *)
(* others, in argument order, to their list; so no recipient list of a     *)
(* builder or of a built document ever holds the empty string.             *)
(***************************************************************************)
C17_NoEmptyRecipient ==
    /\ [][(last'.op \in {"To", "Cc", "Bcc"})
            => LET old == heap[last'.b]
                   new == heap'[last'.b]
                   add == NonEmptyArgs(last'.arg)
               IN  /\ new.to  = IF last'.op = "To"  THEN old.to \o add  ELSE old.to
                   /\ new.cc  = IF last'.op = "Cc"  THEN old.cc \o add  ELSE old.cc
                   /\ new.bcc = IF last'.op = "Bcc" THEN old.bcc \o add ELSE old.bcc]_vars
    /\ [](\A b \in DOMAIN heap :
            NoEmpty(heap[b].to) /\ NoEmpty(heap[b].cc) /\ NoEmpty(heap[b].bcc))
    /\ [](\A b \in DOMAIN docs :
            ~docs[b].nil => NoEmpty(MessageTo(b)) /\ NoEmpty(MessageCc(b))
                            /\ NoEmpty(MessageBcc(b)))

\* a document was built after Bcc("c@x", "", "d@x") and Cc("", "b@x")
C17_Witness ==
    /\ last.op = "Build"
    /\ Built(last.b)
    /\ MessageBcc(last.b) = <<"c@x", "d@x">>
    /\ MessageCc(last.b) = <<"b@x">>

(***************************************************************************)
(* C18: TextDirection(d) accepts only "ltr" and "rtl": for any other d,    *)
(* the empty string included, the call changes nothing: the builder keeps  *)
(* its text direction, whatever it was, and every other field.             *)
(***************************************************************************)
C18_InvalidDirectionIsNoOp ==
    /\ [][(last'.op = "TextDirection")
            => IF last'.arg \in {"ltr", "rtl"}
               THEN heap' = [heap EXCEPT ![last'.b].textDirection = last'.arg]
               ELSE heap' = heap /\ actionHeap' = actionHeap /\ docs' = docs]_vars
    /\ [](\A b \in DOMAIN heap : heap[b].textDirection \in {"ltr", "rtl"})

\* an unknown direction was passed to a builder whose direction is "rtl"
C18_Witness ==
    /\ last.op = "TextDirection"
    /\ last.arg \in {"up", ""}
    /\ heap[last.b].textDirection = "rtl"

(***************************************************************************)
(* C19: Product(p) replaces the builder's product with p merged over       *)
(* defaults: an empty Name becomes the product name of the prototype       *)
(* stored at the time of the call, an empty Copyright becomes              *)
(* "(c) <year> <resolved Name>. All rights reserved.", and Link is p.Link  *)
(* even when that is empty.                                                *)
(***************************************************************************)
C19_ProductMergedOverDefaults ==
    [][(last'.op = "Product")
        => LET p == last'.arg
               resolved == IF p.Name = "" THEN heap[defaultBuilder].product.Name ELSE p.Name
           IN  /\ heap'[last'.b].product.Name = resolved
               /\ heap'[last'.b].product.Copyright =
                     (IF p.Copyright = <<>>
                      THEN <<"(c) ", CurrentYear, " ", resolved, ". All rights reserved.">>
                      ELSE p.Copyright)
               /\ heap'[last'.b].product.Link = p.Link]_vars

\* Product{} was passed while a prototype with a product of its own is stored
C19_Witness ==
    /\ last.op = "Product"
    /\ last.arg.Name = ""
    /\ last.arg.Link = ""
    /\ defaultBuilder # 1
    /\ heap[defaultBuilder].product.Name # newDefaultBuilder.product.Name
    /\ heap[last.b].product.Name = heap[defaultBuilder].product.Name

(***************************************************************************)
(* C20: with a recipient name set, the greeting line of the built document *)
(* is "<Greeting> <Name>" for the direction "ltr" and "<Name> <Greeting>"  *)
(* for "rtl", in the HTML and in the plain text, in whatever order         *)
(* Greeting, Name and TextDirection were called before Build().            *)
(***************************************************************************)
C20_GreetingLineFollowsDirection ==
    \A b \in DOMAIN docs :
        (last.op = "Build" /\ last.b = b /\ ~docs[b].nil /\ heap[b].name # "") =>
            LET line == IF heap[b].textDirection = "ltr"
                        THEN heap[b].greeting \o " " \o heap[b].name
                        ELSE heap[b].name \o " " \o heap[b].greeting
            IN  /\ heap[b].textDirection \in {"ltr", "rtl"}
                /\ docs[b].html.Greeting = HTMLEscape(line)
                /\ docs[b].plainText.Greeting = line

\* built after a Greeting, a Name and a TextDirection call, right to left
C20_Witness ==
    /\ last.op = "Build"
    /\ Built(last.b)
    /\ calls = 0
    /\ heap[last.b].textDirection = "rtl"
    /\ heap[last.b].name = "John"
    /\ heap[last.b].greeting = "Hello"
    /\ docs[last.b].plainText.Greeting = "John Hello"

(***************************************************************************)
(* C21: when no recipient name is set and the builder's greeting is the    *)
(* empty string, the greeting line of the built document is the fixed      *)
(* default greeting "Hi", in the HTML and in the plain text, and it is     *)
(* never empty, whatever prototype SetDefault has stored.                  *)
(***************************************************************************)
C21_EmptyGreetingFallsBackToHi ==
    \A b \in DOMAIN docs :
        (/\ last.op = "Build"
         /\ last.b = b
         /\ ~docs[b].nil
         /\ heap[b].name = ""
         /\ heap[b].greeting = "")
            => /\ docs[b].plainText.Greeting = "Hi"
               /\ docs[b].html.Greeting = "Hi"

\* the same statement while the stored prototype is the built-in one
C21_UnderBuiltInPrototype ==
    (defaultBuilder = 1 /\ heap[1] = newDefaultBuilder) => C21_EmptyGreetingFallsBackToHi

\* the Action objects of a block list, in order, and the elements of a list
ActionRefs(components) ==
    LET actions == SelectSeq(components, LAMBDA c : c.kind = "Action")
    IN  [i \in DOMAIN actions |-> actions[i].ref]

Range(list) == {list[i] : i \in DOMAIN list}

(***************************************************************************)
(* C22: every Action(text, link, cfg) call appends exactly one Action      *)
(* block, a new Action object, and appends that object to the fallback     *)
(* list if and only if cfg.NoFallback is not set; no other operation       *)
(* changes the fallback list; so the fallback list of every builder is, in *)
(* order, a subsequence of the Action blocks of its block list.            *)
(***************************************************************************)
C22_FallbacksFollowActions ==
    /\ [][(last'.op = "Action")
            => LET old == heap[last'.b]
                   new == heap'[last'.b]
                   cfg == last'.arg[3]
                   ref == new.components[Len(new.components)].ref
               IN  /\ new.components = Append(old.components, [kind |-> "Action", ref |-> ref])
                   /\ ref \notin DOMAIN actionHeap
                   /\ ref \in DOMAIN actionHeap'
                   /\ new.fallbacks = IF Len(cfg) > 0 /\ cfg[1].NoFallback
                                      THEN old.fallbacks
                                      ELSE Append(old.fallbacks, ref)]_vars
    /\ [][(last'.op # "Action")
            => \A b \in DOMAIN heap :
                  /\ heap'[b].fallbacks = heap[b].fallbacks
                  /\ ActionRefs(heap'[b].components) = ActionRefs(heap[b].components)]_vars
    /\ [](\A b \in DOMAIN heap :
            heap[b].fallbacks =
                SelectSeq(ActionRefs(heap[b].components),
                          LAMBDA r : r \in Range(heap[b].fallbacks)))

\* a builder cloned with a fallback action got an action without fallback and
\* then one with fallback
C22_Witness ==
    /\ last.op = "Action"
    /\ Len(heap[last.b].components) = 3
    /\ ActionRefs(heap[last.b].components) = <<1, 2, 3>>
    /\ heap[last.b].fallbacks = <<1, 3>>

(***************************************************************************)
(* C23: within one Build() the CSS inliner runs exactly once, over the     *)
(* markup the index template produced from all the rendered blocks: the    *)
(* markup of a document went through one inlining pass and holds one       *)
(* fragment per block, none of which went through the inliner on its own;  *)
(* and when the inliner fails, it is its error Build() returns.            *)
(***************************************************************************)
C23_InlinedOnceOverWholeMarkup ==
    /\ \A b \in DOMAIN docs :
          ~docs[b].nil =>
              /\ docs[b].html.Inlined = 1
              /\ docs[b].html.Clean
              /\ \A i \in DOMAIN docs[b].html.ComponentsHTML :
                    "Inlined" \notin DOMAIN docs[b].html.ComponentsHTML[i]
              /\ (last.op = "Build" /\ last.b = b)
                    => Len(docs[b].html.ComponentsHTML) = Len(heap[b].components)
    /\ (/\ last.op = "Build"
        /\ broken \in {"premailer.new", "premailer.transform"})
          => docs[last.b] = NilMessage(broken)

\* a builder with three blocks has been built
C23_Witness ==
    /\ last.op = "Build"
    /\ Built(last.b)
    /\ Len(heap[last.b].components) = 3
    /\ Len(docs[last.b].html.ComponentsHTML) = 3
    /\ docs[last.b].html.Inlined = 1

\* the blocks of a block list with their fields: an Action block is the
\* Action object it points to
BlockFields(components, actions) ==
    [i \in DOMAIN components |->
        IF components[i].kind = "Action"
        THEN [kind |-> "Action", fields |-> actions[components[i].ref]]
        ELSE [kind |-> components[i].kind, fields |-> components[i]]]

(***************************************************************************)
(* C24: blocks are immutable once appended: Build() leaves every field of  *)
(* every Line, Action and Table of the builder's block list as it was      *)
(* before the call.                                                        *)
(***************************************************************************)
C24_BuildLeavesBlocksUnchanged ==
    [][(last'.op = "Build")
        => BlockFields(heap'[last'.b].components, actionHeap')
             = BlockFields(heap[last'.b].components, actionHeap)]_vars

\* what Build() does leave unchanged: the builders, and every field of every
\* Action except the FallbackText of the built builder's fallback actions
C24_OnlyFallbackTextWritten ==
    [][(last'.op = "Build")
        => /\ heap' = heap
           /\ DOMAIN actionHeap' = DOMAIN actionHeap
           /\ \A a \in DOMAIN actionHeap :
                 /\ [actionHeap'[a] EXCEPT !.FallbackText = <<>>]
                      = [actionHeap[a] EXCEPT !.FallbackText = <<>>]
                 /\ a \notin Range(heap[last'.b].fallbacks) => actionHeap'[a] = actionHeap[a]]_vars

\* the fallback texts of the document of b are those of its own format
OwnFallbackTexts(b) ==
    /\ Len(docs[b].html.Fallbacks) = Len(heap[b].fallbacks)
    /\ \A i \in DOMAIN heap[b].fallbacks :
          docs[b].html.Fallbacks[i].FallbackText =
              [k \in DOMAIN Tokens(heap[b].fallbackFormat) |->
                  HTMLEscape(ReplaceAll(heap[b].fallbackFormat, "[ACTION]",
                                        actionHeap[heap[b].fallbacks[i]].Text)[k])]

(***************************************************************************)
(* C25: two distinct builders from New() can be built concurrently without *)
(* affecting each other: in every interleaving of their Build() calls the  *)
(* fallback texts of each document are derived from the fallback format of *)
(* its own builder, also when the prototype both were cloned from holds an *)
(* Action with a fallback and the two builders' formats differ.            *)
(***************************************************************************)
C25_ConcurrentBuildsAreIsolated ==
    \A b \in DOMAIN docs :
        (last.op = "Build" /\ last.b = b /\ ~docs[b].nil) => OwnFallbackTexts(b)

\* the same statement for builders cloned from the built-in prototype, which
\* holds no Action
C25_WithoutSharedAction == (defaultBuilder = 1) => C25_ConcurrentBuildsAreIsolated

\* a format with the text put in the place of every "[ACTION]"
Substituted(format, text) ==
    [k \in DOMAIN Tokens(format) |->
        IF Tokens(format)[k] = "[ACTION]" THEN text ELSE Tokens(format)[k]]

(***************************************************************************)
(* C26: in a built document the fallback text of every fallback action is  *)
(* the fallback format the builder has when Build() is called, with every  *)
(* occurrence of "[ACTION]" replaced by the action's Text (HTML-escaped in *)
(* the markup), whether FallbackFormat was called before or after the      *)
(* Action calls.                                                           *)
(***************************************************************************)
C26_FallbackTextFromFormatAtBuild ==
    \A b \in DOMAIN docs :
        (last.op = "Build" /\ last.b = b /\ ~docs[b].nil) =>
            /\ Len(docs[b].html.Fallbacks) = Len(heap[b].fallbacks)
            /\ \A i \in DOMAIN heap[b].fallbacks :
                  LET action == actionHeap[heap[b].fallbacks[i]]
                      text == Substituted(heap[b].fallbackFormat, action.Text)
                  IN  /\ action.FallbackText = text
                      /\ docs[b].html.Fallbacks[i].Link = action.Link
                      /\ docs[b].html.Fallbacks[i].FallbackText =
                            [k \in DOMAIN text |-> HTMLEscape(text[k])]

\* a builder cloned with a fallback action got a format that names the action
\* twice and an action of its own, and was built
C26_Witness ==
    /\ last.op = "Build"
    /\ Built(last.b)
    /\ calls = 0
    /\ heap[last.b].fallbackFormat = "[ACTION]: press [ACTION]"
    /\ Len(heap[last.b].fallbacks) = 2
    /\ heap[defaultBuilder].fallbacks = <<heap[last.b].fallbacks[1]>>
    /\ docs[last.b].html.Fallbacks[1].FallbackText = <<"Go", ": press ", "Go">>
    /\ docs[last.b].html.Fallbacks[2].FallbackText = <<"Go", ": press ", "Go">>

\* the two outputs Build() would return for the builder at b
OutputOf(b, builders, actions) ==
    [html      |-> generateHTML(builders[b], broken, beforeBuild(builders[b], actions)),
     plainText |-> generatePlaintext(builders[b], broken, beforeBuild(builders[b], actions))]

(***************************************************************************)
(* C27: a Table block is owned by the builder once Table(t) has returned   *)
(* with a non-empty t: what the caller writes afterwards into the rows of  *)
(* t.Data or into the t.Columns.CustomWidth and CustomAlign maps does not  *)
(* change what a subsequent Build() returns.                               *)
(***************************************************************************)
C27_TableOwnedByBuilder ==
    [][(last'.op = "caller")
        => OutputOf(last'.b, heap', actionHeap') = OutputOf(last'.b, heap, actionHeap)]_vars

\* the builder's own setters and Build() do leave its table blocks as they are
C27_BuilderLeavesTablesAlone ==
    [][(last'.op \in SetterOps \cup {"Build"})
        => \A i \in TablesOf(last'.b) :
              /\ i \in DOMAIN heap'[last'.b].components
              /\ heap'[last'.b].components[i] = heap[last'.b].components[i]]_vars

(***************************************************************************)
(* C28: Table.PlainText returns, with a nil error and without a panic, for *)
(* every table and every column metadata, also when a custom integer width *)
(* is smaller than the length of the column key (or negative) and the      *)
(* column is centred, where the padding to distribute is negative.         *)
(***************************************************************************)
C28_PlainTextNeverPanics ==
    (out # NotCalled) => (~out.panic /\ out.err = "nil")

\* column i is centred and narrower than its key
CentredBelowKey(t, i) ==
    /\ MapAlign(t.CustomAlign, columnNames(t)[i]) = "center"
    /\ MapInt(colWidths(t), columnNames(t)[i]) < ByteLen(columnNames(t)[i])

\* PlainText panics for exactly the tables with such a column, and never
\* returns an error
C28_PanicsOnlyWhenCentredBelowKey ==
    (out # NotCalled) =>
        /\ out.panic <=> (/\ Len(table.Data) > 0
                          /\ Len(table.Data[1]) > 0
                          /\ \E i \in 1..Len(table.Data[1]) : CentredBelowKey(table, i))
        /\ ~out.panic => out.err = "nil"

(***************************************************************************)
(* C29: in the text Table.PlainText returns, every data line is exactly as *)
(* long as the separator line, for every table, alignment and custom       *)
(* width: every data cell is as wide as the dashes of its column, no value *)
(* is longer than its column is wide.                                      *)
(***************************************************************************)
C29_DataLinesAsLongAsSeparator ==
    Rendered =>
        \A r \in 1..Len(table.Data) :
            /\ Len(DataLine(r)) = Len(SeparatorLine)
            /\ \A i \in 1..NCols :
                  Len(CellsOf(DataLine(r), "|")[i]) = Len(CellsOf(SeparatorLine, "+")[i])

\* the same statement with the lengths counted in bytes, as len() counts them
C29_CountedInBytes ==
    Rendered =>
        \A r \in 1..Len(table.Data) : ByteLen(DataLine(r)) = ByteLen(SeparatorLine)

\* the same statement on tables whose strings are all one-byte characters
C29_OnSingleByteTables == SingleByte(table) => C29_DataLinesAsLongAsSeparator

\* the values Theme() is called with, and the built-in one
Themes == {"default", "plain", "fancy"}

(***************************************************************************)
(* C30: the plain-text body does not depend on the theme: a builder whose  *)
(* state differs from that of a built one only in the theme ("default",    *)
(* "plain" or a value that is not a theme) gives a document with the same  *)
(* plain text, and a Theme call does not change the plain text Build()     *)
(* would return.                                                           *)
(***************************************************************************)
C30_PlainTextIgnoresTheme ==
    /\ [](\A b \in DOMAIN docs :
            (last.op = "Build" /\ last.b = b /\ ~docs[b].nil) =>
                \A theme \in Themes :
                    LET twin == [heap EXCEPT ![b].theme = theme]
                    IN  /\ ~OutputOf(b, twin, actionHeap).plainText.panic
                        /\ OutputOf(b, twin, actionHeap).plainText.err = "nil"
                        /\ OutputOf(b, twin, actionHeap).plainText.text = docs[b].plainText)
    /\ [][(last'.op = "Theme")
            => OutputOf(last'.b, heap', actionHeap').plainText
                 = OutputOf(last'.b, heap, actionHeap).plainText]_vars

\* a builder with the plain theme and a block has been built, into markup of
\* the plain templates
C30_Witness ==
    /\ last.op = "Build"
    /\ Built(last.b)
    /\ heap[last.b].theme = "plain"
    /\ docs[last.b].html.Template = "PlainHtmlTmpl"
    /\ Len(docs[last.b].plainText.ComponentsText) > 0
    /\ docs[last.b].html.Template
         # OutputOf(last.b, [heap EXCEPT ![last.b].theme = "fancy"], actionHeap).html.html.Template

====
